---- MODULE Spec2Model ----
(***************************************************************************)
(* Model of the rustLaunchSite supervision engine.                         *)
(*                                                                         *)
(* Part 1: Rcon (src/Rcon.cpp, src/Rcon.h): the WebRCON client that        *)
(*   correlates outbound commands with inbound responses.                  *)
(* Part 2: Server (src/Server.cpp): the process controller and its staged  *)
(*   shutdown (Stop / StopDelay / SendRconCommand / GetInfo).              *)
(* Part 3: the supervisor (src/MainCommon.cpp): rustLaunchSite::Start, its *)
(*   main loop, and the timer thread TimerFunction.                        *)
(*                                                                         *)
(* Each part has its own specification over the same variables:            *)
(*   SpecRcon      == Init /\ [][NextRcon]_vars       callers and inbound   *)
(*   SpecBroadcast == Init /\ [][NextBroadcast]_vars  handlers, one caller  *)
(*   SpecServer    == Init /\ [][NextServer]_vars     Start and Stop        *)
(*   SpecMain      == Init /\ [][NextMain]_vars       main and timer thread *)
(*   SpecMainFair  == SpecMain /\ WF_vars(MainThreadStep)   for liveness    *)
(*   SpecThreadsFair == Init /\ [][NextLoop]_vars, threads and clock fair   *)
(*   SpecUpdate    == Init /\ [][NextUpdate]_vars     the update functions  *)
(***************************************************************************)
EXTENDS Integers, Sequences, FiniteSets, TLC

(***************************************************************************)
(* Bounds of the model                                                     *)
(***************************************************************************)
\* number of threads that call Rcon::SendCommand (one call each)
NumCallers == 2
\* number of distinct non-zero values IdEngine::Get can return in the model
NumIds == 2
\* number of Message-type websocket events handled
MaxInbound == 2
\* number of Rcon::Register calls
MaxHandlers == 2

Callers == 1..NumCallers
\* the values of ID_ENGINE.Get(): any int32 except zero
NonZeroIds == 1..NumIds
\* handler identities that can be registered
Handlers == {"h1", "h2"}
\* response bodies carried by inbound messages
Bodies == {"a", "b"}
\* timeoutMilliseconds arguments: zero (do not wait) and the value Server uses
Timeouts == {0, 10000}
\* mutex_ is not owned
NoOwner == 0

\* largest configured shutdown delay, in seconds
MaxStopDelay == 12

\* the longest a serverinfo response that arrives takes, in ticks
MaxElapsed == 2
\* clock ticks per second
TicksPerSecond == 2
\* the timeout Server passes to Rcon::SendCommand when it waits, in seconds
RconTimeoutSeconds == 10
\* one-second polls of Stop after the quit command
QuitPollAttempts == 10

\* last minute of the steady clock
MaxClock == 4
\* install attempts of one update loop
MaxInstalls == 2
\* largest configured update interval, in minutes
MaxUpdateInterval == 2
\* the sleep duration rustLaunchSite::Start gives TimerFunction, in minutes
SleepDurationMinutes == 1
\* the exit codes of MainCommon.h
RLS_EXIT_SUCCESS == 0
RLS_EXIT_ARG == 1
RLS_EXIT_HANDLER == 2
RLS_EXIT_START == 3
RLS_EXIT_UPDATE == 4
RLS_EXIT_RESTART == 5
RLS_EXIT_EXCEPTION == 6
RLS_EXIT_THREAD == 7

VARIABLES
  readyState,           \* ix::WebSocket ready state seen by IsConnected
  requests_,            \* Rcon::requests_: outstanding identifiers
  responses_,           \* Rcon::responses_: identifier -> response body
  messageHandlers_,     \* Rcon::messageHandlers_: registered handlers
  mutex_,               \* Rcon::mutex_: owning caller or NoOwner
  pc,                   \* position of each caller inside SendCommand
  timeoutMilliseconds,  \* argument of each caller's SendCommand
  identifier,           \* local `identifier` of each caller's SendCommand
  result,               \* value returned by each caller's SendCommand
  outcome,              \* which return statement each caller left through
  sent,                 \* payloads handed to webSocket.send
  nHandled,             \* number of Message events handled so far
  lastHandled,          \* the payload of the last handled Message event
  lastInvoked,          \* handlers invoked by the last handled event, in order
  lastVerdict,          \* what the last handled event did
  inbound,              \* <<Identifier, Message>> of the handled responses with a body
  expect,               \* body of the first response handled for a blocked call
  uncaught,             \* an exception left WebsocketMessageHandler
  serverPc,             \* position of the supervisor thread inside Server
  stopDelaySeconds_,    \* Server::stopDelaySeconds_
  processUptr_,         \* ProcessImpl::processUptr_: "null" or "child"
  running,              \* the operating system's view: the child is alive
  exitCode,             \* exit code of the child once it has exited
  now,                  \* steady_clock, in ticks since Stop was entered
  shutdownTime,         \* StopDelay's shutdownTime, in ticks
  nextMarkTime,         \* StopDelay's nextMarkTime, in ticks
  pollCount,            \* loop counter i of Stop's wait for the quit
  errorCode,            \* Stop's errorCode after process.terminate
  wasRunning,           \* IsRunning() was true when Stop was entered
  observedStopped,      \* an IsRunning() call of this Stop returned false
  stages,               \* stage actions of this Stop, repeated "say" merged
  lastAct,              \* stage action performed by the latest step
  queried,              \* what the GetInfo calls of this StopDelay returned
  lastInfo,             \* the latest GetInfo call: its inputs and its result
  mainPc,               \* position of the main thread inside rustLaunchSite::Start
  context,              \* which update sequence runs: startup, interval, relaunch
  retVal,               \* rustLaunchSite::Start's retVal / returned value
  processAutoRestart,   \* Config::GetProcessAutoRestart()
  updateIntervalMinutes,\* Config::GetUpdateIntervalMinutes()
  updateServer,         \* first member of the pair UpdateCheck returned
  updateModFramework,   \* second member of the pair UpdateCheck returned
  installs,             \* install attempts of the running update loop
  threadMutex,          \* threadData::mutex_: "free", or held by "main"
  timerState_,          \* threadData::timerState_
  notifyMainStop_,      \* threadData::notifyMainStop_
  notifyMainServer_,    \* threadData::notifyMainServer_
  notifyMainUpdater_,   \* threadData::notifyMainUpdater_
  notifyTimerThread_,   \* threadData::notifyTimerThread_
  timerPc,              \* position of the timer thread inside TimerFunction
  wakeTime,             \* TimerFunction's wakeTime, in minutes
  updateTime,           \* TimerFunction's updateTime, in minutes
  clock,                \* steady_clock, in minutes
  pendingWrites,        \* stores of an unlocked SetTimerState not yet performed
  wake,                 \* what the main thread did since it last woke, in order
  wakeFlags,            \* the notify flags the main thread found when it woke
  exitPath,             \* how the main thread left its loop or stopped short of it
  lastTimer,            \* what the latest iteration of the timer loop did
  checked,              \* the latest UpdateCheck call: its inputs and its result
  loopPc,               \* position inside UpdateServer / UpdateFramework
  artifact,             \* which wrapper runs: "server" or "framework"
  retryDelaySeconds,    \* the wrapper's retryDelaySeconds argument
  firstTry,             \* the wrapper's firstTry
  attempts              \* what the running wrapper did, in order

rconVars == <<readyState, requests_, responses_, messageHandlers_, mutex_, pc,
              timeoutMilliseconds, identifier, result, outcome, sent, nHandled,
              lastHandled, lastInvoked, lastVerdict, inbound, expect,
              uncaught>>

serverVars == <<serverPc, stopDelaySeconds_, processUptr_, running, exitCode,
                now, shutdownTime, nextMarkTime, pollCount, errorCode, wasRunning,
                observedStopped, stages, lastAct, queried, lastInfo>>

\* the record of the GetInfo calls
infoVars == <<queried, lastInfo>>

\* everything of Rcon but the ready state, which Server reads
rconInner == <<requests_, responses_, messageHandlers_, mutex_, pc,
               timeoutMilliseconds, identifier, result, outcome, sent, nHandled,
               lastHandled, lastInvoked, lastVerdict, inbound, expect, uncaught>>

\* rustLaunchSite::Start, threadData and TimerFunction
mainVars == <<mainPc, context, retVal, processAutoRestart,
              updateIntervalMinutes, updateServer, updateModFramework,
              installs, threadMutex, timerState_, notifyMainStop_,
              notifyMainServer_, notifyMainUpdater_, notifyTimerThread_,
              timerPc, wakeTime, updateTime, clock, pendingWrites, wake,
              wakeFlags, exitPath, lastTimer>>

\* the process as Server::IsRunning sees it
processVars == <<processUptr_, running, exitCode>>

\* everything of Server but the process
serverInner == <<serverPc, stopDelaySeconds_, now, shutdownTime, nextMarkTime,
                 pollCount, errorCode, wasRunning, observedStopped, stages,
                 lastAct, queried, lastInfo>>

\* the variables of the update wrappers
updateVars == <<checked, loopPc, artifact, retryDelaySeconds, firstTry,
                attempts>>

vars == <<rconVars, serverVars, mainVars, updateVars>>

(***************************************************************************)
(* Inbound payloads (msg.str).  A payload is described by what             *)
(* nlohmann::json makes of it: whether it parses, and the kind and value   *)
(* of its Identifier, Type and Message members.                            *)
(***************************************************************************)
\* responses: a non-zero Identifier and no Chat tag.  Identifier 1 comes with
\* either body, with no Message member, and with a Type that is not Chat; the
\* other identifiers come with one body.
Responses ==
  { [parses |-> TRUE, idKind |-> "number", id |-> 1, type |-> "absent",
     msgKind |-> "string", msg |-> b] : b \in Bodies }
  \cup
  { [parses |-> TRUE, idKind |-> "number", id |-> i, type |-> "absent",
     msgKind |-> "string", msg |-> "a"] : i \in NonZeroIds }
  \cup
  { [parses |-> TRUE, idKind |-> "number", id |-> 1, type |-> "absent",
     msgKind |-> "absent", msg |-> ""],
    [parses |-> TRUE, idKind |-> "number", id |-> 1, type |-> "Generic",
     msgKind |-> "string", msg |-> "a"] }

\* broadcasts: Identifier zero, or tagged Chat whatever the Identifier
Broadcasts ==
  { [parses |-> TRUE, idKind |-> "number", id |-> i, type |-> "Chat",
     msgKind |-> "string", msg |-> "a"] : i \in 0..1 }
  \cup
  { [parses |-> TRUE, idKind |-> "number", id |-> 0, type |-> "absent",
     msgKind |-> "string", msg |-> "a"] }

WellFormed == Responses \cup Broadcasts

\* JSON without an Identifier member
NoIdentifier ==
  { [parses |-> TRUE, idKind |-> "absent", id |-> 0, type |-> ty,
     msgKind |-> "string", msg |-> "a"] : ty \in {"absent", "Chat"} }

\* text that is not JSON; Identifier that is not a number; Type that is not a
\* string; Message that is not a string
Malformed ==
  { [parses |-> FALSE, idKind |-> "absent", id |-> 0, type |-> "absent",
     msgKind |-> "absent", msg |-> ""],
    [parses |-> TRUE, idKind |-> "other", id |-> 0, type |-> "absent",
     msgKind |-> "string", msg |-> "a"],
    [parses |-> TRUE, idKind |-> "number", id |-> 1, type |-> "nonstring",
     msgKind |-> "string", msg |-> "a"],
    [parses |-> TRUE, idKind |-> "number", id |-> 1, type |-> "absent",
     msgKind |-> "other", msg |-> ""] }

Payloads == WellFormed \cup NoIdentifier \cup Malformed

NoPayload == [parses |-> FALSE, idKind |-> "none", id |-> 0, type |-> "none",
              msgKind |-> "none", msg |-> ""]

(***************************************************************************)
(* Rcon: helpers                                                           *)
(***************************************************************************)
IsConnectedAlways == TRUE

\* Rcon::IsConnected: the websocket exists and its ready state is Open
IsConnected == readyState = "Open"

IdentifierChoicesAlwaysFresh(timeout) == NonZeroIds

\* IdEngine::Get for a non-zero timeout, else the literal 0 (Rcon.cpp:163)
IdentifierChoices(timeout) == IF timeout # 0 THEN NonZeroIds ELSE {0}

\* requests_.insert(identifier) guarded by `if (identifier)`
InsertRequest(reqs, id) == IF id # 0 THEN reqs \cup {id} ELSE reqs

\* responses_.find(identifier) != responses_.end()
HasResponse(resp, id) == id \in DOMAIN resp

FoundResponseFirst(resp, id) ==
  resp[CHOOSE i \in DOMAIN resp : \A k \in DOMAIN resp : i <= k]

\* responseIter->second for responses_.find(identifier)
FoundResponse(resp, id) == resp[id]

\* responses_.erase(responseIter)
EraseResponse(resp, id) == [i \in DOMAIN resp \ {id} |-> resp[i]]

\* responses_[id] = std::move(response)
StoreResponse(resp, id, body) ==
  [i \in DOMAIN resp \cup {id} |-> IF i = id THEN body ELSE resp[i]]

PendingAfterAcceptKept(reqs, id) == reqs

\* requests_.erase(id) in WebsocketMessageHandler after a response is stored
PendingAfterAccept(reqs, id) == reqs \ {id}

\* requests_.erase(identifier) in SendCommand once the wait is over
PendingAfterReturn(reqs, id) == reqs \ {id}

IsChatNever(m) == FALSE

\* isChat: j.contains("Type") && j["Type"].get<std::string>() == "Chat"
IsChat(m) == m.type = "Chat"

\* the `id && !isChat` test: true for a response, false for a broadcast
IsResponse(m) == m.id # 0 /\ ~IsChat(m)

\* nlohmann::json throws on this payload before the handler changes anything:
\* parse error, Type that is not a string, Identifier that is not a number
ThrowsEarly(m) ==
  \/ ~m.parses
  \/ m.type = "nonstring"
  \/ m.idKind = "other"

\* j["Message"].get<std::string>() throws: reached only for a pending response
ThrowsOnMessage(m) == m.msgKind = "other"

\* the response string: empty when the Message member is missing
ResponseBody(m) == IF m.msgKind = "string" THEN m.msg ELSE ""

(***************************************************************************)
(* Rcon: initial state (after the constructor)                             *)
(***************************************************************************)
InitRcon ==
  /\ readyState = "Connecting"
  /\ requests_ = {}
  /\ responses_ = <<>>
  /\ messageHandlers_ = <<>>
  /\ mutex_ = NoOwner
  /\ pc = [t \in Callers |-> "idle"]
  /\ timeoutMilliseconds = [t \in Callers |-> 0]
  /\ identifier = [t \in Callers |-> 0]
  /\ result = [t \in Callers |-> ""]
  /\ outcome = [t \in Callers |-> "none"]
  /\ sent = {}
  /\ nHandled = 0
  /\ lastHandled = NoPayload
  /\ lastInvoked = <<>>
  /\ lastVerdict = "none"
  /\ inbound = {}
  /\ expect = [t \in Callers |-> "none"]
  /\ uncaught = FALSE

(***************************************************************************)
(* Rcon: the transport changes the ready state (connect, drop, reconnect)  *)
(***************************************************************************)
ConnectionOpened ==
  /\ ~uncaught
  /\ readyState = "Connecting"
  /\ readyState' = "Open"
  /\ UNCHANGED <<requests_, responses_, messageHandlers_, mutex_, pc,
                 timeoutMilliseconds, identifier, result, outcome, sent,
                 nHandled, lastHandled, lastInvoked, lastVerdict, inbound,
                 expect, uncaught>>
  /\ UNCHANGED <<serverVars, mainVars, updateVars>>

ConnectionLost ==
  /\ ~uncaught
  /\ readyState = "Open"
  /\ readyState' = "Connecting"
  /\ UNCHANGED <<requests_, responses_, messageHandlers_, mutex_, pc,
                 timeoutMilliseconds, identifier, result, outcome, sent,
                 nHandled, lastHandled, lastInvoked, lastVerdict, inbound,
                 expect, uncaught>>
  /\ UNCHANGED <<serverVars, mainVars, updateVars>>

(***************************************************************************)
(* Rcon::Register                                                          *)
(***************************************************************************)
Register(h) ==
  /\ ~uncaught
  /\ Len(messageHandlers_) < MaxHandlers
  /\ messageHandlers_' = Append(messageHandlers_, h)
  /\ UNCHANGED <<readyState, requests_, responses_, mutex_, pc,
                 timeoutMilliseconds, identifier, result, outcome, sent,
                 nHandled, lastHandled, lastInvoked, lastVerdict, inbound,
                 expect, uncaught>>
  /\ UNCHANGED <<serverVars, mainVars, updateVars>>

(***************************************************************************)
(* Rcon::SendCommand                                                       *)
(***************************************************************************)
\* lines 152-156: not connected, return {} before anything else
SendCommandNotConnected(t, timeout) ==
  /\ ~uncaught
  /\ pc[t] = "idle"
  /\ ~IsConnected
  /\ timeoutMilliseconds' = [timeoutMilliseconds EXCEPT ![t] = timeout]
  /\ result' = [result EXCEPT ![t] = ""]
  /\ outcome' = [outcome EXCEPT ![t] = "not_connected"]
  /\ pc' = [pc EXCEPT ![t] = "done"]
  /\ UNCHANGED <<readyState, requests_, responses_, messageHandlers_, mutex_,
                 identifier, sent, nHandled, lastHandled, lastInvoked,
                 lastVerdict, inbound, expect, uncaught>>
  /\ UNCHANGED <<serverVars, mainVars, updateVars>>

\* line 152 passed: the caller goes on to take the lock
SendCommandConnected(t, timeout) ==
  /\ ~uncaught
  /\ pc[t] = "idle"
  /\ IsConnected
  /\ timeoutMilliseconds' = [timeoutMilliseconds EXCEPT ![t] = timeout]
  /\ pc' = [pc EXCEPT ![t] = "lock"]
  /\ UNCHANGED <<readyState, requests_, responses_, messageHandlers_, mutex_,
                 identifier, result, outcome, sent, nHandled, lastHandled,
                 lastInvoked, lastVerdict, inbound, expect, uncaught>>
  /\ UNCHANGED <<serverVars, mainVars, updateVars>>

\* lines 160-180: lock, allocate the identifier, record the pending request
SendCommandLock(t) ==
  /\ ~uncaught
  /\ pc[t] = "lock"
  /\ mutex_ = NoOwner
  /\ \E id \in IdentifierChoices(timeoutMilliseconds[t]) :
       /\ identifier' = [identifier EXCEPT ![t] = id]
       /\ requests_' = InsertRequest(requests_, id)
  /\ mutex_' = t
  /\ pc' = [pc EXCEPT ![t] = "send"]
  /\ UNCHANGED <<readyState, responses_, messageHandlers_, timeoutMilliseconds,
                 result, outcome, sent, nHandled, lastHandled, lastInvoked,
                 lastVerdict, inbound, expect, uncaught>>
  /\ UNCHANGED <<serverVars, mainVars, updateVars>>

\* lines 232-248 with the lock held: erase the pending identifier, then return
\* the stored response (erasing it) or the empty string
Finish(t, how) ==
  /\ requests_' = PendingAfterReturn(requests_, identifier[t])
  /\ IF HasResponse(responses_, identifier[t])
       THEN /\ result' = [result EXCEPT ![t] = FoundResponse(responses_, identifier[t])]
            /\ responses_' = EraseResponse(responses_, identifier[t])
            /\ outcome' = [outcome EXCEPT ![t] = "response"]
       ELSE /\ result' = [result EXCEPT ![t] = ""]
            /\ responses_' = responses_
            /\ outcome' = [outcome EXCEPT ![t] = how]
  /\ mutex_' = NoOwner
  /\ pc' = [pc EXCEPT ![t] = "done"]

\* lines 186-230: send; return at once for a zero timeout; start waiting when
\* the send succeeded and no response is stored yet; otherwise fall through
SendCommandSend(t) ==
  /\ ~uncaught
  /\ pc[t] = "send"
  /\ mutex_ = t
  /\ \E success \in (IF IsConnected THEN BOOLEAN ELSE {FALSE}) :
       /\ sent' = sent \cup {[Identifier |-> identifier[t], caller |-> t]}
       /\ IF timeoutMilliseconds[t] = 0
            THEN /\ result' = [result EXCEPT ![t] = ""]
                 /\ outcome' = [outcome EXCEPT ![t] = "no_wait"]
                 /\ pc' = [pc EXCEPT ![t] = "done"]
                 /\ mutex_' = NoOwner
                 /\ UNCHANGED <<requests_, responses_>>
            ELSE IF success /\ ~HasResponse(responses_, identifier[t])
              THEN /\ pc' = [pc EXCEPT ![t] = "wait"]
                   /\ mutex_' = NoOwner
                   /\ UNCHANGED <<requests_, responses_, result, outcome>>
              ELSE Finish(t, IF success THEN "response" ELSE "send_failed")
  /\ UNCHANGED <<readyState, messageHandlers_, timeoutMilliseconds, identifier,
                 nHandled, lastHandled, lastInvoked, lastVerdict, inbound,
                 expect, uncaught>>
  /\ UNCHANGED <<serverVars, mainVars, updateVars>>

\* cv_.wait_until returns because the predicate holds: a response is stored
SendCommandWake(t) ==
  /\ ~uncaught
  /\ pc[t] = "wait"
  /\ mutex_ = NoOwner
  /\ HasResponse(responses_, identifier[t])
  /\ Finish(t, "response")
  /\ UNCHANGED <<readyState, messageHandlers_, timeoutMilliseconds, identifier,
                 sent, nHandled, lastHandled, lastInvoked, lastVerdict, inbound,
                 expect, uncaught>>
  /\ UNCHANGED <<serverVars, mainVars, updateVars>>

\* cv_.wait_until returns because the timeout elapsed with no response stored
SendCommandTimeout(t) ==
  /\ ~uncaught
  /\ pc[t] = "wait"
  /\ mutex_ = NoOwner
  /\ ~HasResponse(responses_, identifier[t])
  /\ Finish(t, "timeout")
  /\ UNCHANGED <<readyState, messageHandlers_, timeoutMilliseconds, identifier,
                 sent, nHandled, lastHandled, lastInvoked, lastVerdict, inbound,
                 expect, uncaught>>
  /\ UNCHANGED <<serverVars, mainVars, updateVars>>

(***************************************************************************)
(* Rcon::WebsocketMessageHandler, case ix::WebSocketMessageType::Message.  *)
(* It runs on the transport's thread under mutex_.  An exception that      *)
(* leaves it leaves the transport's thread function: the program ends.     *)
(***************************************************************************)
\* callers blocked on an identifier for which no response was handled before
FirstFor(m) ==
  { t \in Callers : pc[t] = "wait" /\ identifier[t] = m.id /\ expect[t] = "none" }

\* `for (const auto& handler : messageHandlers_) handler(msg.str)`: the calls
\* made, in order, each with the raw text of the message
InvokeAll(handlers, m) ==
  [k \in 1..Len(handlers) |-> [handler |-> handlers[k], text |-> m]]

\* the handled responses that carry a non-empty body
Record(seen, m) ==
  IF ResponseBody(m) # "" THEN seen \cup {<<m.id, ResponseBody(m)>>} ELSE seen

\* bookkeeping of the handled event (not program state)
Handled(m, verdict, invoked) ==
  /\ nHandled' = nHandled + 1
  /\ lastHandled' = m
  /\ lastVerdict' = verdict
  /\ lastInvoked' = invoked

WebsocketMessageHandler(m) ==
  /\ ~uncaught
  /\ IsConnected
  /\ nHandled < MaxInbound
  /\ mutex_ = NoOwner
  /\ IF ThrowsEarly(m)
       THEN /\ uncaught' = TRUE
            /\ Handled(m, "threw", <<>>)
            /\ UNCHANGED <<requests_, responses_, inbound, expect>>
     ELSE IF m.idKind = "absent"
       THEN /\ Handled(m, "no_id", <<>>)
            /\ UNCHANGED <<requests_, responses_, inbound, expect, uncaught>>
     ELSE IF IsResponse(m)
       THEN IF m.id \notin requests_
              THEN /\ Handled(m, "unknown", <<>>)
                   /\ inbound' = Record(inbound, m)
                   /\ expect' = [t \in Callers |->
                        IF t \in FirstFor(m) THEN "dropped" ELSE expect[t]]
                   /\ UNCHANGED <<requests_, responses_, uncaught>>
            ELSE IF ThrowsOnMessage(m)
              THEN /\ uncaught' = TRUE
                   /\ Handled(m, "threw", <<>>)
                   /\ UNCHANGED <<requests_, responses_, inbound, expect>>
            ELSE /\ responses_' = StoreResponse(responses_, m.id, ResponseBody(m))
                 /\ requests_' = PendingAfterAccept(requests_, m.id)
                 /\ Handled(m, "stored", <<>>)
                 /\ inbound' = Record(inbound, m)
                 /\ expect' = [t \in Callers |->
                      IF t \in FirstFor(m) THEN <<ResponseBody(m)>> ELSE expect[t]]
                 /\ UNCHANGED uncaught
     ELSE /\ Handled(m, "broadcast", InvokeAll(messageHandlers_, m))
          /\ UNCHANGED <<requests_, responses_, inbound, expect, uncaught>>
  /\ UNCHANGED <<readyState, messageHandlers_, mutex_, pc, timeoutMilliseconds,
                 identifier, result, outcome, sent>>
  /\ UNCHANGED <<serverVars, mainVars, updateVars>>

(***************************************************************************)
(* Server: helpers                                                         *)
(***************************************************************************)
IsRunningAlways == TRUE

\* Server::IsRunning: there is a process handle and the process is alive
IsRunning == processUptr_ = "child" /\ running

\* integer division of C++: truncation toward zero
TruncDiv(a, b) == IF a >= 0 THEN a \div b ELSE -((-a) \div b)

\* duration_cast<seconds>(shutdownTime - now)
RemainingTimeSeconds(shutdown, t) == TruncDiv(shutdown - t, TicksPerSecond)

\* markIntervalSeconds
MarkIntervalSeconds(remaining) ==
  IF remaining > 300 THEN 300
  ELSE IF remaining > 60 THEN 60
  ELSE IF remaining > 10 THEN 10
  ELSE 1

\* marksRemaining = remainingTimeSeconds / markIntervalSeconds
MarksRemaining(remaining) == TruncDiv(remaining, MarkIntervalSeconds(remaining))

\* nextMarkTime = shutdownTime - markIntervalSeconds * marksRemaining
NextMarkTime(shutdown, t) ==
  shutdown - TicksPerSecond *
    ( MarkIntervalSeconds(RemainingTimeSeconds(shutdown, t))
      * MarksRemaining(RemainingTimeSeconds(shutdown, t)) )

HandleAfterStopKept(handle) == handle

\* processImplUptr_->processUptr_.reset() at the end of Stop
HandleAfterStop(handle) == "null"

\* the stage actions of one Stop, consecutive "say" recorded once
AppendStage(log, act) ==
  IF act = "none" \/ (act = "say" /\ log # <<>> /\ log[Len(log)] = "say")
    THEN log ELSE Append(log, act)

TransmitsUnchecked == IsConnected

\* SendRconCommand as Stop uses it: the command reaches the websocket only if
\* the process is running (Server.cpp:276) and Rcon is connected (Rcon.cpp:152)
Transmits == IsRunning /\ IsConnected

LatestShutdownTimeInTicks(t, delay) == t + delay

\* StopDelay lines 484-487: shutdownTime = now + seconds(stopDelaySeconds_)
LatestShutdownTime(t, delay) == t + TicksPerSecond * delay

\* the Protocol string of a serverinfo response
ProtocolText == "2380.236.1"

\* what SendRconCommand("serverinfo", true) can return, described by what
\* nlohmann::json makes of it: the empty string, text that is not JSON, JSON
\* that is not an object, and objects whose Players and Protocol members are
\* absent or of some kind
ServerInfoObjects ==
  { [kind |-> "object", playersKind |-> pk, players |-> n,
     protocolKind |-> qk, protocol |-> q] :
      pk \in {"absent", "string", "number"}, n \in 0..1,
      qk \in {"absent", "number", "string"}, q \in {"", ProtocolText} }

EmptyResponse ==
  [kind |-> "empty", playersKind |-> "absent", players |-> 0,
   protocolKind |-> "absent", protocol |-> ""]

ServerInfoResponses ==
  { EmptyResponse }
  \cup
  { [EmptyResponse EXCEPT !.kind = k] : k \in {"garbage", "array"} }
  \cup
  { j \in ServerInfoObjects :
      /\ (j.playersKind # "number" => j.players = 0)
      /\ (j.protocolKind = "string" <=> j.protocol = ProtocolText) }

\* Info retVal{}: Server.h lines 38-46
DefaultInfo == [valid_ |-> FALSE, players_ |-> 0, protocol_ |-> ""]

GetInfoValidPlayersOnly(j) ==
  j.kind = "object" /\ j.playersKind = "number"

\* GetInfo lines 235-238: j.contains("Players") && j["Players"].is_number()
\* && j.contains("Protocol") && j["Protocol"].is_string(); contains() is
\* false for JSON that is not an object
GetInfoValid(j) ==
  /\ j.kind = "object"
  /\ j.playersKind = "number"
  /\ j.protocolKind = "string"

\* Server::GetInfo: `isRunning` is what IsRunning() returned, `serverInfo`
\* what SendRconCommand returned
GetInfo(isRunning, serverInfo) ==
  IF ~isRunning THEN DefaultInfo
  ELSE IF serverInfo.kind = "empty" THEN DefaultInfo
  ELSE IF serverInfo.kind = "garbage"
    THEN \* json::parse throws, the catch block sets valid_ = false
         [DefaultInfo EXCEPT !.valid_ = FALSE]
  ELSE IF GetInfoValid(serverInfo)
    THEN [valid_ |-> TRUE, players_ |-> serverInfo.players,
          protocol_ |-> serverInfo.protocol]
  ELSE DefaultInfo

\* no GetInfo call is on record
NoInfo ==
  [called |-> FALSE, running |-> FALSE, connected |-> FALSE, sent |-> FALSE,
   response |-> EmptyResponse, info |-> DefaultInfo]

(***************************************************************************)
(* Server: initial state, constructor, Start, and the supervised process   *)
(***************************************************************************)
InitServer ==
  /\ serverPc = "unconstructed"
  /\ stopDelaySeconds_ = 0
  /\ processUptr_ = "null"
  /\ running = FALSE
  /\ exitCode = 0
  /\ now = 0
  /\ shutdownTime = 0
  /\ nextMarkTime = 0
  /\ pollCount = 0
  /\ errorCode = FALSE
  /\ wasRunning = FALSE
  /\ observedStopped = FALSE
  /\ stages = <<>>
  /\ lastAct = "none"
  /\ queried = "none"
  /\ lastInfo = NoInfo

\* Server::Server: stopDelaySeconds_ comes from the configuration
ServerConstruct(delay) ==
  /\ serverPc = "unconstructed"
  /\ stopDelaySeconds_' = delay
  /\ serverPc' = "idle"
  /\ UNCHANGED <<processUptr_, running, exitCode, now, shutdownTime,
                 nextMarkTime, pollCount, errorCode, wasRunning,
                 observedStopped, stages, lastAct>>
  /\ UNCHANGED infoVars
  /\ UNCHANGED <<rconVars, mainVars, updateVars>>

\* Server::Start: nothing if already running; else drop a defunct handle and
\* spawn; on failure the handle is reset
StartEffect(launched) ==
  IF IsRunning
    THEN UNCHANGED <<processUptr_, running, exitCode>>
    ELSE IF launched
      THEN /\ processUptr_' = "child"
           /\ running' = TRUE
           /\ exitCode' = 0
      ELSE /\ processUptr_' = "null"
           /\ UNCHANGED <<running, exitCode>>

StartResultAlways(launched) == TRUE

\* the value Server::Start returns (lines 294, 400, 412, 419)
StartResult(launched) == IsRunning \/ launched

Start(launched) ==
  /\ serverPc \in {"idle", "returned"}
  /\ StartEffect(launched)
  /\ serverPc' = "idle"
  /\ lastAct' = "none"
  /\ UNCHANGED <<stopDelaySeconds_, now, shutdownTime, nextMarkTime, pollCount,
                 errorCode, wasRunning, observedStopped, stages>>
  /\ UNCHANGED infoVars
  /\ UNCHANGED <<rconVars, mainVars, updateVars>>

\* the supervised process exits by itself (crash, or the quit command)
ProcessExits(code) ==
  /\ processUptr_ = "child"
  /\ running
  /\ running' = FALSE
  /\ exitCode' = code
  /\ lastAct' = "none"
  /\ UNCHANGED <<serverPc, stopDelaySeconds_, processUptr_, now, shutdownTime,
                 nextMarkTime, pollCount, errorCode, wasRunning,
                 observedStopped, stages>>
  /\ UNCHANGED infoVars
  /\ UNCHANGED <<rconVars, mainVars, updateVars>>

(***************************************************************************)
(* Server::Stop                                                            *)
(***************************************************************************)
\* lines 424-428: not running, return at once
StopNotRunning ==
  /\ serverPc \in {"idle", "returned"}
  /\ ~IsRunning
  /\ serverPc' = "returned"
  /\ wasRunning' = FALSE
  /\ observedStopped' = TRUE
  /\ stages' = <<>>
  /\ lastAct' = "none"
  /\ now' = 0
  /\ pollCount' = 0
  /\ errorCode' = FALSE
  /\ queried' = "none"
  /\ lastInfo' = NoInfo
  /\ UNCHANGED <<stopDelaySeconds_, processUptr_, running, exitCode,
                 shutdownTime, nextMarkTime>>
  /\ UNCHANGED <<rconVars, mainVars, updateVars>>

StopEnterAlwaysRcon ==
  /\ serverPc \in {"idle", "returned"}
  /\ IsRunning
  /\ serverPc' = "delay"
  /\ wasRunning' = TRUE
  /\ observedStopped' = FALSE
  /\ stages' = <<>>
  /\ lastAct' = "none"
  /\ now' = 0
  /\ pollCount' = 0
  /\ errorCode' = FALSE
  /\ queried' = "none"
  /\ lastInfo' = NoInfo
  /\ UNCHANGED <<stopDelaySeconds_, processUptr_, running, exitCode,
                 shutdownTime, nextMarkTime>>
  /\ UNCHANGED <<rconVars, mainVars, updateVars>>

\* lines 424-437: running; take the RCON branch if Rcon is connected
StopEnter ==
  /\ serverPc \in {"idle", "returned"}
  /\ IsRunning
  /\ serverPc' = IF IsConnected THEN "delay" ELSE "kill"
  /\ wasRunning' = TRUE
  /\ observedStopped' = FALSE
  /\ stages' = <<>>
  /\ lastAct' = "none"
  /\ now' = 0
  /\ pollCount' = 0
  /\ errorCode' = FALSE
  /\ queried' = "none"
  /\ lastInfo' = NoInfo
  /\ UNCHANGED <<stopDelaySeconds_, processUptr_, running, exitCode,
                 shutdownTime, nextMarkTime>>
  /\ UNCHANGED <<rconVars, mainVars, updateVars>>

\* StopDelay lines 476-487: skip if no delay is configured, else set the
\* latest shutdown time
StopDelayBegin ==
  /\ serverPc = "delay"
  /\ IF stopDelaySeconds_ = 0
       THEN /\ serverPc' = "quit"
            /\ UNCHANGED shutdownTime
       ELSE /\ serverPc' = "loop"
            /\ shutdownTime' = LatestShutdownTime(now, stopDelaySeconds_)
  /\ lastAct' = "none"
  /\ UNCHANGED <<stopDelaySeconds_, processUptr_, running, exitCode, now,
                 nextMarkTime, pollCount, errorCode, wasRunning,
                 observedStopped, stages>>
  /\ UNCHANGED infoVars
  /\ UNCHANGED <<rconVars, mainVars, updateVars>>

StopDelayLoopIgnoresDeadline ==
  /\ serverPc = "loop"
  /\ serverPc' = IF IsRunning THEN "getinfo" ELSE "quit"
  /\ observedStopped' = (observedStopped \/ ~IsRunning)
  /\ lastAct' = "none"
  /\ UNCHANGED <<stopDelaySeconds_, processUptr_, running, exitCode, now,
                 shutdownTime, nextMarkTime, pollCount, errorCode, wasRunning,
                 stages>>
  /\ UNCHANGED infoVars
  /\ UNCHANGED <<rconVars, mainVars, updateVars>>

\* line 488: while (IsRunning() && now <= shutdownTime)
StopDelayLoop ==
  /\ serverPc = "loop"
  /\ serverPc' = IF IsRunning /\ now <= shutdownTime THEN "getinfo" ELSE "quit"
  /\ observedStopped' = (observedStopped \/ ~IsRunning)
  /\ lastAct' = "none"
  /\ UNCHANGED <<stopDelaySeconds_, processUptr_, running, exitCode, now,
                 shutdownTime, nextMarkTime, pollCount, errorCode, wasRunning,
                 stages>>
  /\ UNCHANGED infoVars
  /\ UNCHANGED <<rconVars, mainVars, updateVars>>

StopDelayGetInfoIgnoresPlayers(response, elapsed) ==
  /\ serverPc = "getinfo"
  /\ (~Transmits => response = EmptyResponse)
  /\ (response = EmptyResponse => elapsed = 0)
  /\ LET serverInfo == IF Transmits THEN response ELSE EmptyResponse
         info == GetInfo(IsRunning, serverInfo)
         \* an unanswered command costs the whole timeout of SendCommand
         after == IF ~Transmits THEN now
                  ELSE IF response = EmptyResponse
                    THEN now + TicksPerSecond * RconTimeoutSeconds
                  ELSE now + elapsed
     IN /\ lastInfo' = [called |-> TRUE, running |-> IsRunning,
                        connected |-> IsConnected, sent |-> Transmits,
                        response |-> serverInfo, info |-> info]
        /\ now' = after
        /\ IF ~info.valid_
             THEN /\ serverPc' = "quit"
                  /\ queried' = "other"
                  /\ UNCHANGED nextMarkTime
             ELSE /\ serverPc' = "say"
                  /\ queried' = IF queried = "none" THEN "players" ELSE queried
                  /\ nextMarkTime' = NextMarkTime(shutdownTime, after)
  /\ observedStopped' = (observedStopped \/ ~IsRunning)
  /\ lastAct' = "none"
  /\ UNCHANGED <<stopDelaySeconds_, processUptr_, running, exitCode,
                 shutdownTime, pollCount, errorCode, wasRunning, stages>>
  /\ UNCHANGED <<rconVars, mainVars, updateVars>>

\* lines 491-520: GetInfo() and what the loop body derives from it.
\* `response` is what the server answers to "serverinfo" (the empty response:
\* nothing came back before the timeout); `elapsed` is the time the answer
\* took, in ticks.  The loop breaks when the Info is not valid or reports no
\* players, otherwise it computes the next mark.
StopDelayGetInfo(response, elapsed) ==
  /\ serverPc = "getinfo"
  /\ (~Transmits => response = EmptyResponse)
  /\ (response = EmptyResponse => elapsed = 0)
  /\ LET serverInfo == IF Transmits THEN response ELSE EmptyResponse
         info == GetInfo(IsRunning, serverInfo)
         \* an unanswered command costs the whole timeout of SendCommand
         after == IF ~Transmits THEN now
                  ELSE IF response = EmptyResponse
                    THEN now + TicksPerSecond * RconTimeoutSeconds
                  ELSE now + elapsed
     IN /\ lastInfo' = [called |-> TRUE, running |-> IsRunning,
                        connected |-> IsConnected, sent |-> Transmits,
                        response |-> serverInfo, info |-> info]
        /\ now' = after
        /\ IF ~info.valid_ \/ info.players_ = 0
             THEN /\ serverPc' = "quit"
                  /\ queried' = "other"
                  /\ UNCHANGED nextMarkTime
             ELSE /\ serverPc' = "say"
                  /\ queried' = IF queried = "none" THEN "players" ELSE queried
                  /\ nextMarkTime' = NextMarkTime(shutdownTime, after)
  /\ observedStopped' = (observedStopped \/ ~IsRunning)
  /\ lastAct' = "none"
  /\ UNCHANGED <<stopDelaySeconds_, processUptr_, running, exitCode,
                 shutdownTime, pollCount, errorCode, wasRunning, stages>>
  /\ UNCHANGED <<rconVars, mainVars, updateVars>>

\* lines 535-541: SendRconCommand(sayString, false), then sleep_until(nextMark)
StopDelaySay(oversleep) ==
  /\ serverPc = "say"
  /\ lastAct' = IF Transmits THEN "say" ELSE "none"
  /\ stages' = AppendStage(stages, IF Transmits THEN "say" ELSE "none")
  /\ observedStopped' = (observedStopped \/ ~IsRunning)
  /\ now' = (IF nextMarkTime > now THEN nextMarkTime ELSE now) + oversleep
  /\ serverPc' = "loop"
  /\ lastInfo' = NoInfo
  /\ UNCHANGED <<stopDelaySeconds_, processUptr_, running, exitCode,
                 shutdownTime, nextMarkTime, pollCount, errorCode, wasRunning,
                 queried>>
  /\ UNCHANGED <<rconVars, mainVars, updateVars>>

\* line 443: SendRconCommand("quit", true); `elapsed` is how long the wait for
\* the response took, in ticks
StopQuit(elapsed) ==
  /\ serverPc = "quit"
  /\ IF Transmits
       THEN /\ lastAct' = "quit"
            /\ stages' = AppendStage(stages, "quit")
            /\ now' = now + elapsed
       ELSE /\ elapsed = 0
            /\ lastAct' = "none"
            /\ UNCHANGED <<stages, now>>
  /\ observedStopped' = (observedStopped \/ ~IsRunning)
  /\ pollCount' = 0
  /\ serverPc' = "poll"
  /\ lastInfo' = NoInfo
  /\ UNCHANGED <<stopDelaySeconds_, processUptr_, running, exitCode,
                 shutdownTime, nextMarkTime, errorCode, wasRunning, queried>>
  /\ UNCHANGED <<rconVars, mainVars, updateVars>>

\* lines 444-448: for (i = 0; i < 10 && IsRunning(); ++i) sleep 1 s
StopPoll ==
  /\ serverPc = "poll"
  /\ IF pollCount < QuitPollAttempts /\ IsRunning
       THEN /\ pollCount' = pollCount + 1
            /\ now' = now + TicksPerSecond
            /\ serverPc' = "poll"
            /\ UNCHANGED observedStopped
       ELSE /\ serverPc' = "kill"
            /\ observedStopped' =
                 (observedStopped \/ (pollCount < QuitPollAttempts /\ ~IsRunning))
            /\ UNCHANGED <<pollCount, now>>
  /\ lastAct' = "none"
  /\ UNCHANGED <<stopDelaySeconds_, processUptr_, running, exitCode,
                 shutdownTime, nextMarkTime, errorCode, wasRunning, stages>>
  /\ UNCHANGED infoVars
  /\ UNCHANGED <<rconVars, mainVars, updateVars>>

\* lines 454-463: if still running, process.terminate(errorCode); the call
\* either ends the process or reports an error and leaves it alone
StopKill(failed) ==
  /\ serverPc = "kill"
  /\ IF IsRunning
       THEN /\ lastAct' = "terminate"
            /\ stages' = AppendStage(stages, "terminate")
            /\ errorCode' = failed
            /\ running' = failed
            /\ exitCode' = IF failed THEN exitCode ELSE 1
            /\ UNCHANGED observedStopped
       ELSE /\ ~failed
            /\ lastAct' = "none"
            /\ observedStopped' = TRUE
            /\ UNCHANGED <<stages, errorCode, running, exitCode>>
  /\ serverPc' = "reset"
  /\ UNCHANGED <<stopDelaySeconds_, processUptr_, now, shutdownTime,
                 nextMarkTime, pollCount, wasRunning>>
  /\ UNCHANGED infoVars
  /\ UNCHANGED <<rconVars, mainVars, updateVars>>

\* lines 465-471: report the exit code, then reset the handle; the destructor
\* of a child that is still alive tries to terminate it once more
StopReset(alive) ==
  /\ serverPc = "reset"
  /\ processUptr_' = HandleAfterStop(processUptr_)
  /\ running' = (running /\ alive)
  /\ serverPc' = "returned"
  /\ lastAct' = "none"
  /\ shutdownTime' = 0
  /\ nextMarkTime' = 0
  /\ pollCount' = 0
  /\ queried' = "none"
  /\ UNCHANGED <<stopDelaySeconds_, exitCode, now, errorCode, wasRunning,
                 observedStopped, stages, lastInfo>>
  /\ UNCHANGED <<rconVars, mainVars, updateVars>>

\* the ready state changes while Server runs
ServerConnectionOpened ==
  /\ serverPc # "unconstructed"
  /\ ConnectionOpened
  /\ TRUE

ServerConnectionLost ==
  /\ serverPc # "unconstructed"
  /\ ConnectionLost
  /\ TRUE

NextServer ==
  \/ \E delay \in 0..MaxStopDelay : ServerConstruct(delay)
  \/ ServerConnectionOpened
  \/ ServerConnectionLost
  \/ \E launched \in BOOLEAN : Start(launched)
  \/ \E code \in {0, 1} : ProcessExits(code)
  \/ StopNotRunning
  \/ StopEnter
  \/ StopDelayBegin
  \/ StopDelayLoop
  \/ \E response \in ServerInfoResponses, elapsed \in 0..MaxElapsed :
       StopDelayGetInfo(response, elapsed)
  \/ \E oversleep \in 0..1 : StopDelaySay(oversleep)
  \/ \E elapsed \in {0, 1, TicksPerSecond * RconTimeoutSeconds} :
       StopQuit(elapsed)
  \/ StopPoll
  \/ \E failed \in BOOLEAN : StopKill(failed)
  \/ \E alive \in BOOLEAN : StopReset(alive)

(***************************************************************************)
(* threadData and TimerFunction (src/MainCommon.cpp)                       *)
(***************************************************************************)
\* Config::GetUpdateIntervalMinutes(): zero disables the update timer
UpdateIntervals == {0, MaxUpdateInterval}

TimerStates == {"RUN", "PAUSE", "STOP"}

InitMain ==
  /\ mainPc = "unstarted"
  /\ context = "startup"
  /\ retVal = RLS_EXIT_SUCCESS
  /\ processAutoRestart = FALSE
  /\ updateIntervalMinutes = 0
  /\ updateServer = FALSE
  /\ updateModFramework = FALSE
  /\ installs = 0
  /\ threadMutex = "free"
  /\ timerState_ = "RUN"
  /\ notifyMainStop_ = FALSE
  /\ notifyMainServer_ = FALSE
  /\ notifyMainUpdater_ = FALSE
  /\ notifyTimerThread_ = FALSE
  /\ timerPc = "unstarted"
  /\ wakeTime = 0
  /\ updateTime = 0
  /\ clock = 0
  /\ pendingWrites = {}
  /\ wake = <<>>
  /\ wakeFlags = [stop |-> FALSE, updater |-> FALSE, server |-> FALSE]
  /\ exitPath = "none"
  /\ lastTimer = "none"

\* what the main-thread variables a timer step leaves alone
mainThreadVars == <<mainPc, context, retVal, processAutoRestart,
                    updateIntervalMinutes, updateServer, updateModFramework,
                    installs, threadMutex, pendingWrites, wake, wakeFlags,
                    exitPath>>

ResetTimersWakeOnly ==
  /\ wakeTime' = clock + SleepDurationMinutes
  /\ UNCHANGED updateTime

\* ResetTimers: time1 = now + duration1, time2 = now + duration2
ResetTimers ==
  /\ wakeTime' = clock + SleepDurationMinutes
  /\ updateTime' = clock + updateIntervalMinutes

NotifyMainAlways(ts) == TRUE

NotifyMainNever(ts) == FALSE

\* line 112: notifyMain(timerState_ != TimerState::PAUSE)
NotifyMain(ts) == ts # "PAUSE"

\* lines 113-115: updateIntervalMinutes && now >= updateTime
UpdateTimeElapsed == updateIntervalMinutes # 0 /\ clock >= updateTime

\* wait_until returned true: notifyTimerThread_ was set
Notified == notifyTimerThread_

\* the steady clock advances, whoever holds the mutex
ClockTick ==
  /\ timerPc = "waiting"
  /\ clock < MaxClock
  /\ clock' = clock + 1
  /\ UNCHANGED <<mainThreadVars, timerState_, notifyMainStop_,
                 notifyMainServer_, notifyMainUpdater_, notifyTimerThread_,
                 timerPc, wakeTime, updateTime, lastTimer>>
  /\ UNCHANGED <<rconVars, serverVars, updateVars>>

\* lines 82-110: the wait returned because of a notification and the state is
\* RUN (reset the timers, continue) or STOP (break)
TimerNotified ==
  /\ timerPc = "waiting"
  /\ threadMutex = "free"
  /\ Notified
  /\ timerState_ \in {"RUN", "STOP"}
  /\ notifyTimerThread_' = FALSE
  /\ IF timerState_ = "RUN"
       THEN /\ ResetTimers
            /\ lastTimer' = "reset"
            /\ UNCHANGED timerPc
       ELSE /\ timerPc' = "exited"
            /\ lastTimer' = "exit"
            /\ UNCHANGED <<wakeTime, updateTime>>
  /\ UNCHANGED <<mainThreadVars, timerState_, notifyMainStop_,
                 notifyMainServer_, notifyMainUpdater_, clock>>
  /\ UNCHANGED <<rconVars, serverVars, updateVars>>

\* lines 111-127: the wake time was reached, or a PAUSE notification came in:
\* advance the target times and, unless paused, raise the flags of main
TimerTick ==
  /\ timerPc = "waiting"
  /\ threadMutex = "free"
  /\ IF Notified THEN timerState_ = "PAUSE" ELSE clock >= wakeTime
  /\ notifyTimerThread_' = FALSE
  /\ wakeTime' = wakeTime + SleepDurationMinutes
  /\ updateTime' = IF UpdateTimeElapsed
                     THEN updateTime + updateIntervalMinutes ELSE updateTime
  /\ IF NotifyMain(timerState_)
       THEN /\ notifyMainServer_' = TRUE
            /\ notifyMainUpdater_' = UpdateTimeElapsed
            /\ lastTimer' = IF UpdateTimeElapsed THEN "tick_update" ELSE "tick"
       ELSE /\ lastTimer' = "skipped"
            /\ UNCHANGED <<notifyMainServer_, notifyMainUpdater_>>
  /\ UNCHANGED <<mainThreadVars, timerState_, notifyMainStop_, timerPc, clock>>
  /\ UNCHANGED <<rconVars, serverVars, updateVars>>

\* rustLaunchSite::Stop: under the mutex, request an orderly shutdown; a
\* call that finds the flag set stores the same value again
RequestStop ==
  /\ mainPc \notin {"unstarted", "returned"}
  /\ threadMutex = "free"
  /\ notifyMainStop_' = TRUE
  /\ UNCHANGED <<mainThreadVars, timerState_, notifyMainServer_,
                 notifyMainUpdater_, notifyTimerThread_, timerPc, wakeTime,
                 updateTime, clock, lastTimer>>
  /\ UNCHANGED <<rconVars, serverVars, updateVars>>

(***************************************************************************)
(* rustLaunchSite::Start (src/MainCommon.cpp lines 285-559)                *)
(***************************************************************************)
\* the variables of the timer thread's loop
timerLocals == <<timerPc, wakeTime, updateTime, lastTimer>>

\* the variables of the configuration
configVars == <<processAutoRestart, updateIntervalMinutes>>

UpdateCheckPolicyOnly(checkServer, checkModFramework, updateModFrameworkOnServer, serverNeeds, frameworkNeeds) ==
  LET first == checkServer /\ serverNeeds
      checksFramework == checkModFramework
  IN [first |-> first,
      second |-> checksFramework /\ frameworkNeeds,
      calls |-> (IF checkServer THEN <<"check_server">> ELSE <<>>)
                \o (IF checksFramework THEN <<"check_framework">> ELSE <<>>)]

\* UpdateCheck (lines 143-163): which checks it makes and the pair it
\* returns; `serverNeeds` and `frameworkNeeds` are what Updater::CheckServer
\* and Updater::CheckFramework would return
UpdateCheck(checkServer, checkModFramework, updateModFrameworkOnServer, serverNeeds, frameworkNeeds) ==
  LET first == checkServer /\ serverNeeds
      forceCheck == updateModFrameworkOnServer /\ first
      checksFramework == checkModFramework \/ forceCheck
  IN [first |-> first,
      second |-> checksFramework /\ frameworkNeeds,
      calls |-> (IF checkServer THEN <<"check_server">> ELSE <<>>)
                \o (IF checksFramework THEN <<"check_framework">> ELSE <<>>)]

\* lines 416-429: the artifacts named in the reason of the interval stop
UpdateReason(first, second) ==
  IF first /\ second THEN "Facepunch + framework"
  ELSE IF first THEN "Facepunch"
  ELSE IF second THEN "framework"
  ELSE ""

StopEffectSkipped(alive) == UNCHANGED <<processUptr_, running, exitCode>>

\* Server::Stop as its caller sees it: a running process loses its handle;
\* `alive` tells whether the process survived the termination
StopEffect(alive) ==
  IF IsRunning
    THEN /\ processUptr_' = HandleAfterStop(processUptr_)
         /\ running' = alive
         /\ exitCode' = IF alive THEN exitCode ELSE 1
    ELSE UNCHANGED <<processUptr_, running, exitCode>>

\* SetTimerState (lines 133-138), called with the mutex held
SetTimerState(ts) ==
  /\ timerState_' = ts
  /\ notifyTimerThread_' = TRUE

\* the timer thread was created and has not been joined
Joinable == timerPc \in {"waiting", "exited"}

CatchKeepsRetVal ==
  /\ retVal' = retVal
  /\ exitPath' = "exception"
  /\ threadMutex' = "free"
  /\ IF Joinable
       THEN /\ mainPc' = "epilogue"
            /\ pendingWrites' = {"state", "notify"}
       ELSE /\ mainPc' = "destroy"
            /\ pendingWrites' = {}

\* lines 537-554: an exception reaches the catch blocks; unwinding releases
\* the lock; the timer thread, if joinable, is stopped and joined at the end
Catch ==
  /\ retVal' = RLS_EXIT_EXCEPTION
  /\ exitPath' = "exception"
  /\ threadMutex' = "free"
  /\ IF Joinable
       THEN /\ mainPc' = "epilogue"
            /\ pendingWrites' = {"state", "notify"}
       ELSE /\ mainPc' = "destroy"
            /\ pendingWrites' = {}

BreakStaysInLoop(code, path) ==
  /\ retVal' = code
  /\ exitPath' = path
  /\ threadMutex' = "free"
  /\ mainPc' = "wait"
  /\ pendingWrites' = {}

\* a break of the main loop: the lock goes out of scope, SetTimerState(STOP)
\* follows without it (line 530)
Break(code, path) ==
  /\ retVal' = code
  /\ exitPath' = path
  /\ threadMutex' = "free"
  /\ mainPc' = "teardown"
  /\ pendingWrites' = {"state", "notify"}

\* the end of the main loop's body: the lock goes out of scope
LoopEnd ==
  /\ threadMutex' = "free"
  /\ mainPc' = "wait"

AfterCheckSkipsFramework(first, second) ==
  IF first THEN "update_server" ELSE "start"

\* where the update sequence goes after UpdateCheck or after the server loop
AfterCheck(first, second) ==
  IF first THEN "update_server"
  ELSE IF second THEN "update_framework"
  ELSE "start"

StopRequestedIgnored == FALSE

\* line 382: if (threadData::notifyMainStop_)
StopRequested == notifyMainStop_

AutoRestartAlways == TRUE

\* line 476: configSptr->GetProcessAutoRestart()
AutoRestart == processAutoRestart

\* lines 289-293: the argument check
MainEnter(argOk) ==
  /\ mainPc = "unstarted"
  /\ IF argOk
       THEN /\ mainPc' = "construct"
            /\ UNCHANGED <<retVal, exitPath>>
       ELSE /\ mainPc' = "returned"
            /\ retVal' = RLS_EXIT_ARG
            /\ exitPath' = "arg"
  /\ UNCHANGED <<context, configVars, updateServer, updateModFramework,
                 installs, threadMutex, timerState_, notifyMainStop_,
                 notifyMainServer_, notifyMainUpdater_, notifyTimerThread_,
                 timerLocals, clock, pendingWrites, wake, wakeFlags>>
  /\ UNCHANGED <<rconVars, serverVars, updateVars>>

\* lines 305-314: Config, Server and Updater are constructed; a constructor
\* may throw
MainConstruct(throws, autoRestart, interval) ==
  /\ mainPc = "construct"
  /\ IF throws
       THEN /\ Catch
            /\ autoRestart = FALSE /\ interval = 0
            /\ UNCHANGED <<configVars, context>>
       ELSE /\ processAutoRestart' = autoRestart
            /\ updateIntervalMinutes' = interval
            /\ context' = "startup"
            /\ mainPc' = "check"
            /\ UNCHANGED <<retVal, exitPath, threadMutex, pendingWrites>>
  /\ UNCHANGED <<updateServer, updateModFramework, installs, timerState_,
                 notifyMainStop_, notifyMainServer_, notifyMainUpdater_,
                 notifyTimerThread_, timerLocals, clock, wake, wakeFlags>>
  /\ UNCHANGED <<rconVars, serverVars, updateVars>>

\* the UpdateCheck call of lines 317-324 (startup), 401-408 (interval) and
\* 483-490 (relaunch).  On the interval, nothing to install skips to the
\* health check (line 410); otherwise the timer is paused (line 414).
MainUpdateCheck(checkServer, checkModFramework, updateModFrameworkOnServer, serverNeeds, frameworkNeeds) ==
  /\ mainPc = "check"
  /\ LET r == UpdateCheck(checkServer, checkModFramework,
                          updateModFrameworkOnServer, serverNeeds,
                          frameworkNeeds)
     IN /\ updateServer' = r.first
        /\ updateModFramework' = r.second
        /\ IF context = "interval"
             THEN IF r.first \/ r.second
                    THEN /\ SetTimerState("PAUSE")
                         /\ wake' = wake \o r.calls \o <<"pause">>
                         /\ mainPc' = "stop"
                    ELSE /\ wake' = wake \o r.calls
                         /\ mainPc' = "health"
                         /\ UNCHANGED <<timerState_, notifyTimerThread_>>
             ELSE /\ wake' = wake \o r.calls
                  /\ mainPc' = AfterCheck(r.first, r.second)
                  /\ UNCHANGED <<timerState_, notifyTimerThread_>>
  /\ UNCHANGED <<context, retVal, configVars, installs, threadMutex,
                 notifyMainStop_, notifyMainServer_, notifyMainUpdater_,
                 timerLocals, clock, pendingWrites, wakeFlags, exitPath>>
  /\ UNCHANGED <<rconVars, serverVars, updateVars>>

\* line 433: Server::Stop("Installing update(s): " + updateReason)
MainStopForUpdate(alive) ==
  /\ mainPc = "stop"
  /\ StopEffect(alive)
  /\ wake' = wake \o <<"stop", UpdateReason(updateServer, updateModFramework)>>
  /\ mainPc' = AfterCheck(updateServer, updateModFramework)
  /\ UNCHANGED <<context, retVal, configVars, updateServer, updateModFramework,
                 installs, threadMutex, timerState_, notifyMainStop_,
                 notifyMainServer_, notifyMainUpdater_, notifyTimerThread_,
                 timerLocals, clock, pendingWrites, wakeFlags, exitPath>>
  /\ UNCHANGED <<rconVars, serverInner, updateVars>>

\* one pass of the loop of UpdateServer (lines 204-223): install, then
\* CheckServer; `stillNeeded` is what the check returns
MainInstallServer(stillNeeded) ==
  /\ mainPc = "update_server"
  /\ (stillNeeded => installs + 1 < MaxInstalls)
  /\ wake' = wake \o <<"install_server", "check_server">>
  /\ IF stillNeeded
       THEN /\ installs' = installs + 1
            /\ UNCHANGED mainPc
       ELSE /\ installs' = 0
            /\ mainPc' = AfterCheck(FALSE, updateModFramework)
  /\ UNCHANGED <<context, retVal, configVars, updateServer, updateModFramework,
                 threadMutex, timerState_, notifyMainStop_, notifyMainServer_,
                 notifyMainUpdater_, notifyTimerThread_, timerLocals, clock,
                 pendingWrites, wakeFlags, exitPath>>
  /\ UNCHANGED <<rconVars, serverVars, updateVars>>

\* one pass of the loop of UpdateFramework (lines 173-192): install, then
\* CheckFramework
MainInstallFramework(stillNeeded) ==
  /\ mainPc = "update_framework"
  /\ (stillNeeded => installs + 1 < MaxInstalls)
  /\ wake' = wake \o <<"install_framework", "check_framework">>
  /\ IF stillNeeded
       THEN /\ installs' = installs + 1
            /\ UNCHANGED mainPc
       ELSE /\ installs' = 0
            /\ mainPc' = "start"
  /\ UNCHANGED <<context, retVal, configVars, updateServer, updateModFramework,
                 threadMutex, timerState_, notifyMainStop_, notifyMainServer_,
                 notifyMainUpdater_, notifyTimerThread_, timerLocals, clock,
                 pendingWrites, wakeFlags, exitPath>>
  /\ UNCHANGED <<rconVars, serverVars, updateVars>>

MainStartKeepsPause(launched) ==
  /\ mainPc = "start"
  /\ StartEffect(launched)
  /\ IF StartResult(launched)
       THEN IF context = "startup"
              THEN /\ mainPc' = "thread"
                   /\ wake' = Append(wake, "start")
                   /\ UNCHANGED <<retVal, exitPath, threadMutex, timerState_,
                                  notifyTimerThread_, pendingWrites>>
            ELSE IF context = "interval"
              THEN /\ UNCHANGED <<timerState_, notifyTimerThread_>>
                   /\ mainPc' = "health"
                   /\ wake' = wake \o <<"start", "run">>
                   /\ UNCHANGED <<retVal, exitPath, threadMutex,
                                  pendingWrites>>
            ELSE /\ UNCHANGED <<timerState_, notifyTimerThread_>>
                 /\ LoopEnd
                 /\ wake' = wake \o <<"start", "run">>
                 /\ UNCHANGED <<retVal, exitPath, pendingWrites>>
       ELSE /\ wake' = Append(wake, "start")
            /\ UNCHANGED <<timerState_, notifyTimerThread_>>
            /\ IF context = "startup"
                 THEN \* return RLS_EXIT_START
                      /\ retVal' = RLS_EXIT_START
                      /\ exitPath' = "start_failed"
                      /\ mainPc' = "destroy"
                      /\ UNCHANGED <<threadMutex, pendingWrites>>
               ELSE IF context = "interval"
                 THEN Break(RLS_EXIT_UPDATE, "update_restart_failed")
               ELSE Break(RLS_EXIT_RESTART, "restart_failed")
  /\ UNCHANGED <<context, configVars, updateServer, updateModFramework,
                 installs, notifyMainStop_, notifyMainServer_,
                 notifyMainUpdater_, timerLocals, clock, wakeFlags>>
  /\ UNCHANGED <<rconVars, serverInner, updateVars>>

\* Server::Start at lines 344 (startup), 449 (interval) and 508 (relaunch)
\* and what follows its result
MainStart(launched) ==
  /\ mainPc = "start"
  /\ StartEffect(launched)
  /\ IF StartResult(launched)
       THEN IF context = "startup"
              THEN /\ mainPc' = "thread"
                   /\ wake' = Append(wake, "start")
                   /\ UNCHANGED <<retVal, exitPath, threadMutex, timerState_,
                                  notifyTimerThread_, pendingWrites>>
            ELSE IF context = "interval"
              THEN /\ SetTimerState("RUN")
                   /\ mainPc' = "health"
                   /\ wake' = wake \o <<"start", "run">>
                   /\ UNCHANGED <<retVal, exitPath, threadMutex,
                                  pendingWrites>>
            ELSE /\ SetTimerState("RUN")
                 /\ LoopEnd
                 /\ wake' = wake \o <<"start", "run">>
                 /\ UNCHANGED <<retVal, exitPath, pendingWrites>>
       ELSE /\ wake' = Append(wake, "start")
            /\ UNCHANGED <<timerState_, notifyTimerThread_>>
            /\ IF context = "startup"
                 THEN \* return RLS_EXIT_START
                      /\ retVal' = RLS_EXIT_START
                      /\ exitPath' = "start_failed"
                      /\ mainPc' = "destroy"
                      /\ UNCHANGED <<threadMutex, pendingWrites>>
               ELSE IF context = "interval"
                 THEN Break(RLS_EXIT_UPDATE, "update_restart_failed")
               ELSE Break(RLS_EXIT_RESTART, "restart_failed")
  /\ UNCHANGED <<context, configVars, updateServer, updateModFramework,
                 installs, notifyMainStop_, notifyMainServer_,
                 notifyMainUpdater_, timerLocals, clock, wakeFlags>>
  /\ UNCHANGED <<rconVars, serverInner, updateVars>>

\* lines 353-360: the timer thread is created and TimerFunction sets its
\* timers (lines 70-73); make_unique and std::thread throw when they fail
MainCreateThread(throws) ==
  /\ mainPc = "thread"
  /\ IF throws
       THEN /\ Catch
            /\ UNCHANGED <<timerPc, wakeTime, updateTime>>
       ELSE /\ timerPc' = "waiting"
            /\ ResetTimers
            /\ mainPc' = "wait"
            /\ UNCHANGED <<retVal, exitPath, threadMutex, pendingWrites>>
  /\ UNCHANGED <<context, configVars, updateServer, updateModFramework,
                 installs, timerState_, notifyMainStop_, notifyMainServer_,
                 notifyMainUpdater_, notifyTimerThread_, lastTimer, clock,
                 wake, wakeFlags>>
  /\ UNCHANGED <<rconVars, serverVars, updateVars>>

WaitPredicateWithoutStop == notifyMainServer_ \/ notifyMainUpdater_

\* lines 373-379: the predicate of cvMain_.wait
WaitPredicate == notifyMainStop_ \/ notifyMainServer_ \/ notifyMainUpdater_

\* lines 367-380: cvMain_.wait returns with the mutex held once a flag is set
MainWake ==
  /\ mainPc = "wait"
  /\ threadMutex = "free"
  /\ WaitPredicate
  /\ threadMutex' = "main"
  /\ mainPc' = "woke"
  /\ wake' = <<>>
  /\ wakeFlags' = [stop |-> notifyMainStop_, updater |-> notifyMainUpdater_,
                   server |-> notifyMainServer_]
  /\ UNCHANGED <<context, retVal, configVars, updateServer, updateModFramework,
                 installs, timerState_, notifyMainStop_, notifyMainServer_,
                 notifyMainUpdater_, notifyTimerThread_, timerLocals, clock,
                 pendingWrites, exitPath>>
  /\ UNCHANGED <<rconVars, serverVars, updateVars>>

\* lines 382-395: the stop branch; GetShutdownReason works on the file
\* system and may throw
MainStopRequested(throws, alive) ==
  /\ mainPc = "woke"
  /\ StopRequested
  /\ SetTimerState("STOP")
  /\ IF throws
       THEN /\ Catch
            /\ alive = FALSE
            /\ wake' = Append(wake, "set_stop")
            /\ UNCHANGED processVars
       ELSE /\ StopEffect(alive)
            /\ wake' = wake \o <<"set_stop", "stop">>
            /\ Break(RLS_EXIT_SUCCESS, "stop")
  /\ UNCHANGED <<context, configVars, updateServer, updateModFramework,
                 installs, notifyMainStop_, notifyMainServer_,
                 notifyMainUpdater_, timerLocals, clock, wakeFlags>>
  /\ UNCHANGED <<rconVars, serverInner, updateVars>>

\* lines 397-399: no stop request; take the update branch if its flag is set
MainUpdaterBranch ==
  /\ mainPc = "woke"
  /\ ~StopRequested
  /\ IF notifyMainUpdater_
       THEN /\ notifyMainUpdater_' = FALSE
            /\ context' = "interval"
            /\ mainPc' = "check"
            /\ wake' = Append(wake, "update")
       ELSE /\ mainPc' = "health"
            /\ UNCHANGED <<notifyMainUpdater_, context, wake>>
  /\ UNCHANGED <<retVal, configVars, updateServer, updateModFramework,
                 installs, threadMutex, timerState_, notifyMainStop_,
                 notifyMainServer_, notifyTimerThread_, timerLocals, clock,
                 pendingWrites, wakeFlags, exitPath>>
  /\ UNCHANGED <<rconVars, serverVars, updateVars>>

\* lines 460-524: the health branch
MainHealth ==
  /\ mainPc = "health"
  /\ IF ~notifyMainServer_
       THEN /\ LoopEnd
            /\ UNCHANGED <<notifyMainServer_, context, wake, retVal, exitPath,
                           timerState_, notifyTimerThread_, pendingWrites>>
     ELSE /\ notifyMainServer_' = FALSE
          /\ IF IsRunning
               THEN \* GetInfo, logged when valid
                    /\ wake' = wake \o <<"health", "get_info">>
                    /\ LoopEnd
                    /\ UNCHANGED <<context, retVal, exitPath, timerState_,
                                   notifyTimerThread_, pendingWrites>>
             ELSE IF AutoRestart
               THEN /\ SetTimerState("PAUSE")
                    /\ wake' = wake \o <<"health", "pause">>
                    /\ context' = "relaunch"
                    /\ mainPc' = "check"
                    /\ UNCHANGED <<retVal, exitPath, threadMutex,
                                   pendingWrites>>
             ELSE /\ SetTimerState("STOP")
                  /\ wake' = wake \o <<"health", "set_stop">>
                  /\ Break(RLS_EXIT_RESTART, "no_auto_restart")
                  /\ UNCHANGED context
  /\ UNCHANGED <<configVars, updateServer, updateModFramework, installs,
                 notifyMainStop_, notifyMainUpdater_, timerLocals, clock,
                 wakeFlags>>
  /\ UNCHANGED <<rconVars, serverVars, updateVars>>

\* SetTimerState(STOP) at lines 530 and 552, called without the mutex: its
\* two stores are not ordered with respect to the timer thread
MainUnlockedStore(w) ==
  /\ mainPc \in {"teardown", "epilogue"}
  /\ w \in pendingWrites
  /\ pendingWrites' = pendingWrites \ {w}
  /\ IF w = "state"
       THEN /\ timerState_' = "STOP"
            /\ UNCHANGED notifyTimerThread_
       ELSE /\ notifyTimerThread_' = TRUE
            /\ UNCHANGED timerState_
  /\ UNCHANGED <<mainPc, context, retVal, configVars, updateServer,
                 updateModFramework, installs, threadMutex, notifyMainStop_,
                 notifyMainServer_, notifyMainUpdater_, timerLocals, clock,
                 wake, wakeFlags, exitPath>>
  /\ UNCHANGED <<rconVars, serverVars, updateVars>>

JoinReturnsAtOnce == TRUE

\* std::thread::join returns once TimerFunction has returned
JoinReturns == timerPc = "exited"

\* lines 531 and 553: join the timer thread
MainJoin ==
  /\ mainPc \in {"teardown", "epilogue"}
  /\ pendingWrites = {}
  /\ JoinReturns
  /\ timerPc' = IF timerPc = "exited" THEN "joined" ELSE timerPc
  /\ mainPc' = IF mainPc = "teardown" THEN "final_stop" ELSE "destroy"
  /\ UNCHANGED <<context, retVal, configVars, updateServer, updateModFramework,
                 installs, threadMutex, timerState_, notifyMainStop_,
                 notifyMainServer_, notifyMainUpdater_, notifyTimerThread_,
                 wakeTime, updateTime, lastTimer, clock, pendingWrites, wake,
                 wakeFlags, exitPath>>
  /\ UNCHANGED <<rconVars, serverVars, updateVars>>

\* lines 533-535: the final Server::Stop; GetShutdownReason may throw
MainFinalStop(throws, alive) ==
  /\ mainPc = "final_stop"
  /\ IF throws
       THEN /\ Catch
            /\ alive = FALSE
            /\ UNCHANGED <<processVars, wake>>
       ELSE /\ StopEffect(alive)
            /\ wake' = Append(wake, "final_stop")
            /\ mainPc' = "destroy"
            /\ UNCHANGED <<retVal, exitPath, threadMutex, pendingWrites>>
  /\ UNCHANGED <<context, configVars, updateServer, updateModFramework,
                 installs, timerState_, notifyMainStop_, notifyMainServer_,
                 notifyMainUpdater_, notifyTimerThread_, timerLocals, clock,
                 wakeFlags>>
  /\ UNCHANGED <<rconVars, serverInner, updateVars>>

ServerDestructorEmpty(alive) == UNCHANGED <<processUptr_, running, exitCode>>

\* Server::~Server (Server.cpp lines 186-199): if (IsRunning()) Stop(...)
ServerDestructor(alive) == StopEffect(alive)

\* line 558 and the returns inside the try block: the locals go out of scope
\* and serverUptr destroys the Server
MainDestroy(alive) ==
  /\ mainPc = "destroy"
  /\ (~IsRunning => ~alive)
  /\ ServerDestructor(alive)
  /\ mainPc' = "returned"
  /\ UNCHANGED <<context, retVal, configVars, updateServer, updateModFramework,
                 installs, threadMutex, timerState_, notifyMainStop_,
                 notifyMainServer_, notifyMainUpdater_, notifyTimerThread_,
                 timerLocals, clock, pendingWrites, wake, wakeFlags, exitPath>>
  /\ UNCHANGED <<rconVars, serverInner, updateVars>>

NextMain ==
  \/ \E argOk \in BOOLEAN : MainEnter(argOk)
  \/ \E throws, autoRestart \in BOOLEAN, interval \in UpdateIntervals :
       MainConstruct(throws, autoRestart, interval)
  \/ \E checkServer, checkModFramework, updateModFrameworkOnServer,
        serverNeeds, frameworkNeeds \in BOOLEAN :
       MainUpdateCheck(checkServer, checkModFramework,
                       updateModFrameworkOnServer, serverNeeds, frameworkNeeds)
  \/ \E alive \in BOOLEAN : MainStopForUpdate(alive)
  \/ \E stillNeeded \in BOOLEAN : MainInstallServer(stillNeeded)
  \/ \E stillNeeded \in BOOLEAN : MainInstallFramework(stillNeeded)
  \/ \E launched \in BOOLEAN : MainStart(launched)
  \/ \E throws \in BOOLEAN : MainCreateThread(throws)
  \/ MainWake
  \/ \E throws, alive \in BOOLEAN : MainStopRequested(throws, alive)
  \/ MainUpdaterBranch
  \/ MainHealth
  \/ \E w \in {"state", "notify"} : MainUnlockedStore(w)
  \/ MainJoin
  \/ \E throws, alive \in BOOLEAN : MainFinalStop(throws, alive)
  \/ \E alive \in BOOLEAN : MainDestroy(alive)
  \/ ClockTick
  \/ TimerNotified
  \/ TimerTick
  \/ RequestStop
  \/ \E code \in {0, 1} : ProcessExits(code)

(***************************************************************************)
(* UpdateCheck, UpdateServer and UpdateFramework as functions              *)
(* (src/MainCommon.cpp lines 143-225)                                      *)
(***************************************************************************)
\* retryDelaySeconds arguments: zero (try again immediately) and a delay
RetryDelays == {0, 5}

\* UpdateServer and UpdateFramework differ in the Updater calls they make
Artifacts == {"server", "framework"}

\* no UpdateCheck call yet
NoCheck ==
  [called |-> FALSE, checkServer |-> FALSE, checkModFramework |-> FALSE,
   updateModFrameworkOnServer |-> FALSE, serverNeeds |-> FALSE,
   frameworkNeeds |-> FALSE, first |-> FALSE, second |-> FALSE,
   calls |-> <<>>]

InitUpdate ==
  /\ checked = NoCheck
  /\ loopPc = "idle"
  /\ artifact = "server"
  /\ retryDelaySeconds = 0
  /\ firstTry = TRUE
  /\ attempts = <<>>

\* a call of UpdateCheck with these arguments, the Updater answering
\* `serverNeeds` and `frameworkNeeds` when asked
CallUpdateCheck(checkServer, checkModFramework, updateModFrameworkOnServer, serverNeeds, frameworkNeeds) ==
  /\ loopPc \in {"idle", "returned"}
  /\ LET r == UpdateCheck(checkServer, checkModFramework,
                          updateModFrameworkOnServer, serverNeeds,
                          frameworkNeeds)
     IN checked' =
          [called |-> TRUE, checkServer |-> checkServer,
           checkModFramework |-> checkModFramework,
           updateModFrameworkOnServer |-> updateModFrameworkOnServer,
           serverNeeds |-> serverNeeds, frameworkNeeds |-> frameworkNeeds,
           first |-> r.first, second |-> r.second, calls |-> r.calls]
  /\ UNCHANGED <<loopPc, artifact, retryDelaySeconds, firstTry, attempts>>
  /\ UNCHANGED <<rconVars, serverVars, mainVars>>

\* number of Updater::UpdateServer / UpdateFramework calls made so far
InstallCount(log) == Cardinality({k \in 1..Len(log) : log[k] = "install"})

\* lines 172-173 and 203-204: firstTry{true}; for (bool update{true}; update;
UpdateLoopEnter(a, delay) ==
  /\ loopPc \in {"idle", "returned"}
  /\ artifact' = a
  /\ retryDelaySeconds' = delay
  /\ firstTry' = TRUE
  /\ attempts' = <<>>
  /\ loopPc' = "body"
  /\ UNCHANGED checked
  /\ UNCHANGED <<rconVars, serverVars, mainVars>>

SleepsBeforeEveryTry(first, delay) == delay > 0

\* lines 175-178 and 206-209: sleep_for only if (!firstTry) and
\* (retryDelaySeconds > 0)
SleepsBeforeTry(first, delay) == ~first /\ delay > 0

\* lines 175-191 and 206-222: the loop body: the retry delay, then the install
UpdateLoopBody ==
  /\ loopPc = "body"
  /\ attempts' = attempts
       \o (IF SleepsBeforeTry(firstTry, retryDelaySeconds)
             THEN <<"sleep">> ELSE <<>>)
       \o <<"install">>
  /\ firstTry' = FALSE
  /\ loopPc' = "check"
  /\ UNCHANGED <<checked, artifact, retryDelaySeconds>>
  /\ UNCHANGED <<rconVars, serverVars, mainVars>>

\* lines 173 and 204: update = updater.CheckFramework() / CheckServer(), then
\* the loop condition `update`
UpdateLoopCheck(stillNeeded) ==
  /\ loopPc = "check"
  /\ (stillNeeded => InstallCount(attempts) < MaxInstalls)
  /\ attempts' = Append(attempts, IF stillNeeded THEN "pending" ELSE "uptodate")
  /\ loopPc' = IF stillNeeded THEN "body" ELSE "returned"
  /\ UNCHANGED <<checked, artifact, retryDelaySeconds, firstTry>>
  /\ UNCHANGED <<rconVars, serverVars, mainVars>>

NextUpdate ==
  \/ \E checkServer, checkModFramework, updateModFrameworkOnServer,
        serverNeeds, frameworkNeeds \in BOOLEAN :
       CallUpdateCheck(checkServer, checkModFramework,
                       updateModFrameworkOnServer, serverNeeds, frameworkNeeds)
  \/ \E a \in Artifacts, delay \in RetryDelays : UpdateLoopEnter(a, delay)
  \/ UpdateLoopBody
  \/ \E stillNeeded \in BOOLEAN : UpdateLoopCheck(stillNeeded)

\* the positions of the main thread before it has left its loop
InLoop ==
  {"unstarted", "construct", "check", "stop", "update_server",
   "update_framework", "start", "thread", "wait", "woke", "health"}

\* the steps of the main thread
MainThreadStep ==
  \/ \E argOk \in BOOLEAN : MainEnter(argOk)
  \/ \E throws, autoRestart \in BOOLEAN, interval \in UpdateIntervals :
       MainConstruct(throws, autoRestart, interval)
  \/ \E checkServer, checkModFramework, updateModFrameworkOnServer,
        serverNeeds, frameworkNeeds \in BOOLEAN :
       MainUpdateCheck(checkServer, checkModFramework,
                       updateModFrameworkOnServer, serverNeeds, frameworkNeeds)
  \/ \E alive \in BOOLEAN : MainStopForUpdate(alive)
  \/ \E stillNeeded \in BOOLEAN : MainInstallServer(stillNeeded)
  \/ \E stillNeeded \in BOOLEAN : MainInstallFramework(stillNeeded)
  \/ \E launched \in BOOLEAN : MainStart(launched)
  \/ \E throws \in BOOLEAN : MainCreateThread(throws)
  \/ MainWake
  \/ \E throws, alive \in BOOLEAN : MainStopRequested(throws, alive)
  \/ MainUpdaterBranch
  \/ MainHealth
  \/ \E alive \in BOOLEAN : MainDestroy(alive)

(***************************************************************************)
(* Specification of the Rcon part                                          *)
(***************************************************************************)
NextRcon ==
  \/ ConnectionOpened
  \/ ConnectionLost
  \/ \E t \in Callers, timeout \in Timeouts : SendCommandNotConnected(t, timeout)
  \/ \E t \in Callers, timeout \in Timeouts : SendCommandConnected(t, timeout)
  \/ \E t \in Callers : SendCommandLock(t)
  \/ \E t \in Callers : SendCommandSend(t)
  \/ \E t \in Callers : SendCommandWake(t)
  \/ \E t \in Callers : SendCommandTimeout(t)
  \/ \E m \in Payloads : WebsocketMessageHandler(m)

Init == InitRcon /\ InitServer /\ InitMain /\ InitUpdate

SpecRcon == Init /\ [][NextRcon]_vars

\* the broadcast part: one caller, registrations and inbound messages
NextBroadcast ==
  \/ ConnectionOpened
  \/ ConnectionLost
  \/ \E h \in Handlers : Register(h)
  \/ \E timeout \in Timeouts : SendCommandNotConnected(1, timeout)
  \/ \E timeout \in Timeouts : SendCommandConnected(1, timeout)
  \/ SendCommandLock(1)
  \/ SendCommandSend(1)
  \/ SendCommandWake(1)
  \/ SendCommandTimeout(1)
  \/ \E m \in Payloads : WebsocketMessageHandler(m)

SpecBroadcast == Init /\ [][NextBroadcast]_vars

SpecServer == Init /\ [][NextServer]_vars

\* the supervisor: the main thread, the timer thread and the stop request
SpecMain == Init /\ [][NextMain]_vars

\* the main thread is scheduled: a step of it that stays possible is taken
SpecMainFair == SpecMain /\ WF_vars(MainThreadStep)

\* the supervisor up to the end of its main loop: the steps of the main
\* thread before it leaves the loop, and those of the timer thread, the clock,
\* the stop request and the supervised process while the loop runs
NextLoop ==
  \/ \E argOk \in BOOLEAN : MainEnter(argOk)
  \/ \E throws, autoRestart \in BOOLEAN, interval \in UpdateIntervals :
       MainConstruct(throws, autoRestart, interval)
  \/ \E checkServer, checkModFramework, updateModFrameworkOnServer,
        serverNeeds, frameworkNeeds \in BOOLEAN :
       MainUpdateCheck(checkServer, checkModFramework,
                       updateModFrameworkOnServer, serverNeeds, frameworkNeeds)
  \/ \E alive \in BOOLEAN : MainStopForUpdate(alive)
  \/ \E stillNeeded \in BOOLEAN : MainInstallServer(stillNeeded)
  \/ \E stillNeeded \in BOOLEAN : MainInstallFramework(stillNeeded)
  \/ \E launched \in BOOLEAN : MainStart(launched)
  \/ \E throws \in BOOLEAN : MainCreateThread(throws)
  \/ MainWake
  \/ \E throws, alive \in BOOLEAN : MainStopRequested(throws, alive)
  \/ MainUpdaterBranch
  \/ MainHealth
  \/ mainPc \in InLoop /\ ClockTick
  \/ mainPc \in InLoop /\ TimerNotified
  \/ mainPc \in InLoop /\ TimerTick
  \/ mainPc \in InLoop /\ RequestStop
  \/ \E code \in {0, 1} : mainPc \in InLoop /\ ProcessExits(code)

\* both threads are scheduled and the steady clock advances
SpecThreadsFair ==
  /\ Init /\ [][NextLoop]_vars
  /\ WF_vars(mainPc \in InLoop /\ MainThreadStep)
  /\ WF_vars(mainPc \in InLoop /\ (TimerNotified \/ TimerTick))
  /\ WF_vars(mainPc \in InLoop /\ ClockTick)

\* the update functions called on their own
SpecUpdate == Init /\ [][NextUpdate]_vars

(***************************************************************************)
(* Properties of the Rcon part                                             *)
(***************************************************************************)
\* a Message event was handled in this step
HandlerStep == nHandled' = nHandled + 1

\* identifiers of the calls that returned because their wait timed out
TimedOutIds == { identifier[t] : t \in { u \in Callers : outcome[u] = "timeout" } }

\* C1: request correlation.  A SendCommand call that has returned a non-empty
\* string returned the Message of a handled response that carried the call's
\* own identifier; otherwise it returned the empty string.
C1_Correlation ==
  \A t \in Callers :
    (pc[t] = "done" /\ result[t] # "") => <<identifier[t], result[t]>> \in inbound

\* two calls with distinct identifiers, one returned its own response although
\* a response for the other identifier was handled too
C1_Witness ==
  \E t, u \in Callers :
    /\ pc[t] = "done" /\ result[t] # "" /\ timeoutMilliseconds[t] # 0
    /\ timeoutMilliseconds[u] # 0 /\ pc[u] \in {"wait", "done"}
    /\ identifier[u] # identifier[t]
    /\ \E b \in Bodies : b # result[t] /\ <<identifier[u], b>> \in inbound

\* C2: timeout exclusivity.  A response whose identifier belongs to a call that
\* already returned through its timeout is dropped as unknown and is not stored
\* in the response map, also when a later call holds the same identifier value.
C2_LateResponseDropped ==
  [][ (HandlerStep /\ lastVerdict' \in {"stored", "unknown"}
         /\ lastHandled'.id \in TimedOutIds)
      => (lastVerdict' = "unknown" /\ responses_' = responses_) ]_vars

\* C3: a response handled while a call with the same identifier is blocked in
\* its wait is what that call returns.
C3_BlockedCallGetsResponse ==
  \A t \in Callers :
    (pc[t] = "done" /\ expect[t] # "none")
      => (expect[t] # "dropped" /\ result[t] = expect[t][1])

\* C4: zero-timeout send.  A SendCommand(cmd, 0) call holds identifier 0, never
\* waits, leaves the pending set without a zero, returns the empty string, and
\* when it got past the connection test it handed a payload with Identifier 0
\* to the websocket.
C4_ZeroTimeout ==
  /\ 0 \notin requests_
  /\ \A t \in Callers :
       (pc[t] # "idle" /\ timeoutMilliseconds[t] = 0) =>
         /\ identifier[t] = 0
         /\ pc[t] # "wait"
         /\ result[t] = ""
         /\ outcome[t] \in {"none", "not_connected", "no_wait"}
         /\ (outcome[t] = "no_wait"
               => [Identifier |-> 0, caller |-> t] \in sent)
         /\ \A r \in sent : r.caller = t => r.Identifier = 0

\* a zero-timeout call returned after transmitting while another call is pending
C4_Witness ==
  \E t \in Callers :
    /\ timeoutMilliseconds[t] = 0 /\ pc[t] = "done" /\ outcome[t] = "no_wait"
    /\ requests_ # {}

\* C5: a SendCommand call made while the connection is not Open returns the
\* empty string in that step: nothing is sent, no identifier is generated or
\* registered, and the caller does not wait.
C5_NotConnected ==
  [][ \A t \in Callers :
        (pc[t] = "idle" /\ pc'[t] # "idle" /\ readyState # "Open") =>
          /\ pc'[t] = "done"
          /\ result'[t] = ""
          /\ identifier'[t] = identifier[t]
          /\ requests_' = requests_
          /\ responses_' = responses_
          /\ sent' = sent
          /\ mutex_' = mutex_ ]_vars

\* a call with a non-zero timeout returned because the connection was not Open
C5_Witness ==
  \E t \in Callers :
    /\ outcome[t] = "not_connected" /\ timeoutMilliseconds[t] # 0
    /\ pc[t] = "done" /\ readyState # "Open"

\* C6: at most one response is accepted per outstanding identifier.  A handled
\* response is stored only if its identifier is pending, and storing removes
\* the identifier from the pending set; a handled message never changes or
\* removes a body that is already stored, and a response whose identifier is
\* not pending changes neither the pending set nor the response map.
C6_AtMostOneResponse ==
  [][ HandlerStep =>
        /\ \A i \in DOMAIN responses_ :
             i \in DOMAIN responses_' /\ responses_'[i] = responses_[i]
        /\ (lastVerdict' = "stored" =>
              /\ lastHandled'.id \in requests_
              /\ lastHandled'.id \notin requests_'
              /\ lastHandled'.id \notin DOMAIN responses_
              /\ lastHandled'.id \in DOMAIN responses_')
        /\ (lastVerdict' = "unknown" =>
              /\ lastHandled'.id \notin requests_
              /\ requests_' = requests_
              /\ responses_' = responses_) ]_vars

\* a second response for an identifier was dropped while the body of the first
\* is still stored for the waiting call, and the two bodies differ
C6_Witness ==
  /\ lastVerdict = "unknown"
  /\ lastHandled.id \in DOMAIN responses_
  /\ lastHandled.msgKind = "string"
  /\ responses_[lastHandled.id] # lastHandled.msg
  /\ \E t \in Callers : pc[t] = "wait" /\ identifier[t] = lastHandled.id

C8_MalformedDropped ==
  [][ (HandlerStep /\ lastHandled' \in Malformed) =>
        /\ ~uncaught'
        /\ lastInvoked' = <<>>
        /\ requests_' = requests_
        /\ responses_' = responses_
        /\ readyState' = readyState ]_vars

(***************************************************************************)
(* Properties of the Server part                                           *)
(***************************************************************************)
\* the stage actions recorded so far in this Stop
Done(act) == \E k \in 1..Len(stages) : stages[k] = act

\* this step of Stop performed the stage action `act`
StageStep(act) == lastAct' = act /\ serverPc' # serverPc

\* C9: shutdown postcondition.  When Stop has returned, IsRunning() is false,
\* and if the process was running when Stop was entered the process handle
\* has been reset, whatever the quit command, the forced termination and the
\* exit code gave.
C9_StopPostcondition ==
  serverPc = "returned" =>
    /\ ~(processUptr_ = "child" /\ running)
    /\ (wasRunning => processUptr_ = "null")

\* Stop returned after a forced termination that reported an error and left
\* the process alive
C9_Witness ==
  /\ serverPc = "returned"
  /\ wasRunning
  /\ Done("terminate")
  /\ errorCode
  /\ running

\* C10: shutdown escalation order.  Within one Stop the stage actions occur
\* only in the order delay warning, quit command, forced termination; the
\* quit command is transmitted only at the quit stage while the process is
\* still running, the termination only after the polling while it is still
\* running, and no stage action follows an IsRunning() that returned false.
C10_EscalationOrder ==
  [][ /\ (StageStep("say") =>
            /\ serverPc = "say"
            /\ processUptr_ = "child" /\ running
            /\ ~Done("quit") /\ ~Done("terminate"))
      /\ (StageStep("quit") =>
            /\ serverPc = "quit"
            /\ processUptr_ = "child" /\ running
            /\ ~Done("quit") /\ ~Done("terminate"))
      /\ (StageStep("terminate") =>
            /\ serverPc = "kill"
            /\ processUptr_ = "child" /\ running
            /\ ~Done("terminate"))
      /\ (observedStopped /\ observedStopped' =>
            ~(StageStep("say") \/ StageStep("quit") \/ StageStep("terminate")))
    ]_vars

\* one Stop went through all three stages
C10_Witness ==
  /\ serverPc = "returned"
  /\ stages = <<"say", "quit", "terminate">>

\* C11: grace period.  When Stop runs with a non-zero delay of G seconds and
\* no GetInfo call of the delay stage returned anything but a valid Info with
\* players, the quit command is transmitted no earlier than G seconds after
\* the delay stage began; the delay stage begins at tick 0 of the Stop.
C11_GracePeriod ==
  [][ /\ (serverPc' = "delay" => now' = 0)
      /\ (StageStep("quit") /\ stopDelaySeconds_ > 0 /\ queried # "other")
           => /\ queried = "players"
              /\ now >= TicksPerSecond * stopDelaySeconds_ ]_vars

\* the quit command was transmitted after a delay of more than ten seconds
\* during which every query reported players
C11_Witness ==
  /\ serverPc = "poll"
  /\ lastAct = "quit"
  /\ stopDelaySeconds_ > 10
  /\ queried = "players"
  /\ Len(stages) = 2

\* C12: GetInfo returns the default Info (valid_ false, players_ 0, protocol_
\* empty) when the process is not running, when Rcon is not connected, when
\* the response is empty or is not JSON, and when Players is not a number or
\* Protocol is not a string; a valid Info carries the two members of the
\* response; when the process is not running no command is transmitted.
C12_GetInfo ==
  lastInfo.called =>
    LET r == lastInfo.response
        info == lastInfo.info
    IN /\ (~lastInfo.running => ~lastInfo.sent /\ info = DefaultInfo)
       /\ (~lastInfo.connected => info = DefaultInfo)
       /\ (r.kind \in {"empty", "garbage"} => info = DefaultInfo)
       /\ (r.playersKind # "number" \/ r.protocolKind # "string"
             => info = DefaultInfo)
       /\ (~info.valid_ => info.players_ = 0 /\ info.protocol_ = "")
       /\ (info.valid_ =>
             /\ lastInfo.running /\ lastInfo.connected /\ lastInfo.sent
             /\ r.kind = "object"
             /\ r.playersKind = "number" /\ info.players_ = r.players
             /\ r.protocolKind = "string" /\ info.protocol_ = r.protocol)

\* a running, connected server answered with a player count but no Protocol,
\* and the Info is not valid
C12_Witness ==
  /\ lastInfo.called
  /\ lastInfo.running /\ lastInfo.connected
  /\ lastInfo.response.kind = "object"
  /\ lastInfo.response.playersKind = "number"
  /\ lastInfo.response.players = 1
  /\ lastInfo.response.protocolKind = "absent"
  /\ ~lastInfo.info.valid_

(***************************************************************************)
(* Properties of the supervisor                                            *)
(***************************************************************************)
\* the main thread did `e` since it last woke
Has(e) == \E k \in 1..Len(wake) : wake[k] = e

\* first position of `e` in the record of this wake, or one past its end
First(e) ==
  IF Has(e) THEN CHOOSE k \in 1..Len(wake) :
                   wake[k] = e /\ \A j \in 1..(k - 1) : wake[j] # e
  ELSE Len(wake) + 1

\* number of `e` at positions from..Len(wake)
CountFrom(e, from) == Cardinality({ k \in from..Len(wake) : wake[k] = e })

\* C13: pause safety.  No step taken while timerState_ is PAUSE raises
\* notifyMainServer_ or notifyMainUpdater_, and an iteration of the timer loop
\* that advances the wake time while paused notifies nobody.
C13_PauseSafety ==
  [][ timerState_ = "PAUSE" =>
        /\ (notifyMainServer_' => notifyMainServer_)
        /\ (notifyMainUpdater_' => notifyMainUpdater_)
        /\ (wakeTime' # wakeTime => lastTimer' = "skipped") ]_vars

\* the timer loop ran while paused, past a due update time, and raised nothing
C13_Witness ==
  /\ timerState_ = "PAUSE"
  /\ lastTimer = "skipped"
  /\ ~notifyTimerThread_
  /\ ~notifyMainServer_
  /\ ~notifyMainUpdater_
  /\ updateIntervalMinutes # 0
  /\ updateTime > updateIntervalMinutes

\* C14: coalescing is cumulative.  Once notifyMainUpdater_ is set it stays set
\* until the main thread, awake, clears it.
C14_CumulativeFlags ==
  [][ (notifyMainUpdater_ /\ ~notifyMainUpdater_') => mainPc = "woke" ]_vars

\* C15: priority order.  A wake that finds the stop flag does nothing but set
\* the timer to STOP and stop the server; a wake that finds the update flag
\* and the health flag begins with the update handling, and its health
\* handling begins only when the update handling is complete.
C15_PriorityOrder ==
  /\ wakeFlags.stop =>
       \A k \in 1..Len(wake) : wake[k] \in {"set_stop", "stop", "final_stop"}
  /\ (~wakeFlags.stop /\ wakeFlags.updater) =>
       /\ (mainPc # "woke" => wake # <<>> /\ wake[1] = "update")
       /\ (wakeFlags.server /\ Has("health")) =>
            /\ First("health") > 1
            /\ wake[First("health") - 1] \in
                 {"update", "check_server", "check_framework", "run"}
            /\ \A k \in 1..(First("health") - 1) : wake[k] # "get_info"
  /\ (~wakeFlags.stop /\ ~wakeFlags.updater) => ~Has("update")

\* a wake found all three flags set and stopped the server
C15_Witness ==
  /\ wakeFlags.stop /\ wakeFlags.updater /\ wakeFlags.server
  /\ Has("stop")
  /\ mainPc = "teardown"

\* C16: exit codes.  rustLaunchSite::Start returns RLS_EXIT_SUCCESS only after
\* leaving the main loop through the stop branch; every other way of leaving
\* returns the code of that way.
C16_ExitCodes ==
  mainPc = "returned" =>
    /\ (retVal = RLS_EXIT_SUCCESS =>
          /\ exitPath = "stop"
          /\ wakeFlags.stop /\ Has("set_stop") /\ Has("stop"))
    /\ (exitPath = "stop" => retVal = RLS_EXIT_SUCCESS)
    /\ (exitPath = "arg" => retVal = RLS_EXIT_ARG)
    /\ (exitPath = "start_failed" => retVal = RLS_EXIT_START)
    /\ (exitPath = "update_restart_failed" => retVal = RLS_EXIT_UPDATE)
    /\ (exitPath \in {"restart_failed", "no_auto_restart"}
          => retVal = RLS_EXIT_RESTART)
    /\ (exitPath = "exception" => retVal = RLS_EXIT_EXCEPTION)
    /\ exitPath # "none"

\* the stop branch was taken, the timer joined, and success returned
C16_Witness ==
  /\ mainPc = "returned"
  /\ retVal = RLS_EXIT_SUCCESS
  /\ exitPath = "stop"
  /\ timerPc = "joined"
  /\ Has("final_stop")

\* position of the last `e` at or after `from`, or zero
Last(e, from) ==
  IF \E k \in from..Len(wake) : wake[k] = e
    THEN CHOOSE k \in from..Len(wake) :
           wake[k] = e /\ \A j \in (k + 1)..Len(wake) : wake[j] # e
    ELSE 0

\* the part of this wake's record that belongs to the interval update: from
\* its first entry up to the health handling or the final Stop
IntervalEnd ==
  IF First("health") < First("final_stop")
    THEN First("health") - 1 ELSE First("final_stop") - 1

\* the order of an update sequence recorded at positions from..to: installs
\* of the server, then installs of the framework, then one Start, then RUN
InstallOrder(from, to) ==
  \A i, j \in from..to :
    i < j =>
      /\ ~(wake[i] = "install_framework" /\ wake[j] = "install_server")
      /\ ~(wake[i] = "start"
             /\ wake[j] \in {"install_server", "install_framework", "start",
                             "check_server", "check_framework"})
      /\ ~(wake[i] = "run" /\ wake[j] # "run" /\ j <= to)

\* the record of an interval wake that paused the timer: "update", the
\* checks, "pause", "stop" and its reason, the server installs if the server
\* needs them, the framework installs if the framework needs them, "start",
\* and "run" after a successful Start
IntervalSequence ==
  (context = "interval" /\ First("pause") <= IntervalEnd) =>
    LET p == First("pause")
        e == IntervalEnd
    IN /\ wake[1] = "update"
       /\ \A k \in 2..(p - 1) : wake[k] \in {"check_server", "check_framework"}
       /\ updateServer \/ updateModFramework
       /\ (e > p =>
             /\ wake[p + 1] = "stop"
             /\ wake[p + 2] = (IF updateServer /\ updateModFramework
                                 THEN "Facepunch + framework"
                               ELSE IF updateServer THEN "Facepunch"
                               ELSE "framework"))
       /\ InstallOrder(p + 3, e)
       /\ \A k \in (p + 3)..e :
            /\ wake[k] = "install_server" => updateServer
            /\ wake[k] = "install_framework" => updateModFramework
            /\ wake[k] = "start" =>
                 /\ updateServer =>
                      \E i \in (p + 3)..(k - 1) : wake[i] = "install_server"
                 /\ updateModFramework =>
                      \E i \in (p + 3)..(k - 1) : wake[i] = "install_framework"
            /\ wake[k] = "run" => wake[k - 1] = "start"
            /\ wake[k] \in {"install_server", "check_server",
                            "install_framework", "check_framework",
                            "start", "run"}

\* C17: interval update.  When the update check of an interval wake reports a
\* needed update, the main thread sets the timer to PAUSE, then stops the
\* server with a reason naming the artifacts, then runs the server install
\* loop if the server needs it, then the framework install loop if the
\* framework needs it, then Server::Start, then sets the timer to RUN; when
\* Start fails the timer stays paused and the loop is left with
\* RLS_EXIT_UPDATE.
C17_IntervalUpdate ==
  [][ /\ IntervalSequence'
      /\ (mainPc = "start" /\ context = "interval" /\ mainPc' # "start") =>
           IF processUptr_' = "child" /\ running'
             THEN /\ timerState_' = "RUN"
                  /\ mainPc' = "health"
                  /\ retVal' = retVal
                  /\ wake'[Len(wake')] = "run"
             ELSE /\ timerState_' = "PAUSE"
                  /\ mainPc' = "teardown"
                  /\ retVal' = RLS_EXIT_UPDATE
                  /\ wake'[Len(wake')] = "start" ]_vars

\* an interval update installed both artifacts, restarted the server and
\* resumed the timer
C17_Witness ==
  /\ context = "interval"
  /\ mainPc = "health"
  /\ updateServer /\ updateModFramework
  /\ Has("install_server") /\ Has("install_framework")
  /\ wake[Len(wake)] = "run"
  /\ timerState_ = "RUN"

\* where the health handling starts in the record of this wake
HealthStart == First("health")

\* C18: crash restart with both updates pending.  When the relaunch update
\* check reports both artifacts and the cycle has called Server::Start, the
\* server was installed, CheckFramework was called after that install, and
\* Start was called once in the cycle, after the installs; before the cycle
\* reaches its Start step, Start has not been called in it.
C18_CrashRestartUpdates ==
  /\ (context = "relaunch" /\ mainPc = "start")
       => CountFrom("start", HealthStart) = 0
  /\ (context = "relaunch" /\ updateServer /\ updateModFramework
         /\ CountFrom("start", HealthStart) >= 1)
       => /\ \E i, j \in HealthStart..Len(wake) :
               /\ i < j
               /\ wake[i] = "install_server"
               /\ wake[j] = "check_framework"
          /\ \E i, j \in HealthStart..Len(wake) :
               /\ i < j
               /\ wake[i] = "install_server"
               /\ wake[j] = "install_framework"
          /\ CountFrom("start", HealthStart) = 1
          /\ Last("install_framework", HealthStart)
               < Last("start", HealthStart)

\* a crash restart installed both artifacts, repeated the server install,
\* and relaunched
C18_Witness ==
  /\ context = "relaunch"
  /\ mainPc = "wait"
  /\ updateServer /\ updateModFramework
  /\ CountFrom("install_server", HealthStart) = 2
  /\ wake[Len(wake)] = "run"

\* C19: unexpected stop.  When the health handling finds the process not
\* running, the relaunch sequence (and with it Server::Start) is entered
\* exactly when auto-restart is configured; the loop is left with
\* RLS_EXIT_RESTART exactly when auto-restart is not configured or that Start
\* fails; when Start succeeds the timer is set to RUN and the loop continues.
C19_UnexpectedStop ==
  [][ /\ (mainPc = "health" /\ mainPc' # "health" /\ notifyMainServer_
            /\ ~(processUptr_ = "child" /\ running)) =>
           IF processAutoRestart
             THEN /\ mainPc' = "check" /\ context' = "relaunch"
                  /\ timerState_' = "PAUSE"
                  /\ retVal' = retVal
             ELSE /\ mainPc' = "teardown"
                  /\ retVal' = RLS_EXIT_RESTART
                  /\ CountFrom("start", HealthStart)' = 0
      /\ (context = "relaunch"
            /\ mainPc \in {"check", "update_server", "update_framework"}) =>
           /\ mainPc' \in {"check", "update_server", "update_framework", "start"}
           /\ retVal' = retVal
      /\ (mainPc = "start" /\ context = "relaunch" /\ mainPc' # "start") =>
           /\ processAutoRestart
           /\ IF processUptr_' = "child" /\ running'
                THEN /\ timerState_' = "RUN"
                     /\ mainPc' = "wait"
                     /\ threadMutex' = "free"
                     /\ retVal' = retVal
                ELSE /\ mainPc' = "teardown"
                     /\ retVal' = RLS_EXIT_RESTART
      /\ (retVal' = RLS_EXIT_RESTART /\ retVal # RLS_EXIT_RESTART) =>
           \/ mainPc = "health" /\ ~processAutoRestart
           \/ mainPc = "start" /\ context = "relaunch" ]_vars

\* the process was found dead, auto-restart is configured, and the relaunch
\* failed
C19_Witness ==
  /\ processAutoRestart
  /\ exitPath = "restart_failed"
  /\ retVal = RLS_EXIT_RESTART
  /\ mainPc = "teardown"
  /\ timerState_ = "PAUSE"
  /\ Has("health")

\* C20: teardown order.  The final Server::Stop begins only when timerState_
\* is STOP and the timer thread has been joined; from then on no step changes
\* a notify flag of the main thread or runs the timer loop.
C20_TeardownOrder ==
  [][ /\ (mainPc' = "final_stop" =>
            /\ timerState_' = "STOP"
            /\ timerPc' = "joined")
      /\ (mainPc = "final_stop" \/ Has("final_stop")) =>
            /\ timerPc = "joined"
            /\ UNCHANGED <<notifyMainServer_, notifyMainUpdater_, lastTimer,
                           wakeTime, updateTime>> ]_vars

\* the loop was left with the timer paused, the timer saw the pause, then the
\* stop, and the final Stop ran
C20_Witness ==
  /\ mainPc = "returned"
  /\ Has("final_stop")
  /\ exitPath = "update_restart_failed"
  /\ timerPc = "joined"
  /\ lastTimer = "exit"
  /\ wakeTime > clock + 1

\* C21: the timer state machine.  timerState_ changes only from RUN to PAUSE,
\* from PAUSE to RUN, or to STOP; it never changes once it is STOP, and the
\* step that makes it STOP leaves the main loop.
C21_TimerStateMachine ==
  [][ /\ (timerState_' # timerState_) =>
           /\ timerState_ # "STOP"
           /\ <<timerState_, timerState_'>> \in
                {<<"RUN", "PAUSE">>, <<"PAUSE", "RUN">>,
                 <<"RUN", "STOP">>, <<"PAUSE", "STOP">>}
      /\ (timerState_' = "STOP") =>
           mainPc' \in {"teardown", "epilogue", "final_stop", "destroy",
                         "returned"}
    ]_vars

\* an interval update paused and resumed the timer, and a later stop request
\* stopped it
C21_Witness ==
  /\ timerState_ = "STOP"
  /\ context = "interval"
  /\ updateServer
  /\ exitPath = "stop"
  /\ mainPc = "returned"

\* C22: installs only while the server is stopped.  Every pass of the loops of
\* UpdateServer and UpdateFramework begins in a state where the process has
\* no handle or is not alive.
C22_InstallWhileStopped ==
  [][ (/\ Len(wake') > Len(wake)
       /\ wake'[Len(wake) + 1] \in {"install_server", "install_framework"})
      => ~(processUptr_ = "child" /\ running) ]_vars

\* an interval update stopped a process and installed both artifacts
C22_Witness ==
  /\ context = "interval"
  /\ mainPc = "start"
  /\ Has("stop")
  /\ Has("install_server")
  /\ Has("install_framework")
  /\ processUptr_ = "null"

\* the main loop has been left, or never entered
LoopLeft == mainPc \in {"teardown", "epilogue", "final_stop", "destroy", "returned"}

\* C23: stop request.  notifyMainStop_, once set, is never cleared; the step
\* that sets it changes nothing else; and once it is set the main thread
\* leaves its loop.
C23_StopRequest ==
  /\ [][ notifyMainStop_ => notifyMainStop_' ]_vars
  /\ [][ (~notifyMainStop_ /\ notifyMainStop_') =>
           UNCHANGED <<rconVars, serverVars, updateVars, mainThreadVars,
                       timerState_,
                       notifyMainServer_, notifyMainUpdater_,
                       notifyTimerThread_, timerLocals, clock>> ]_vars
  /\ (notifyMainStop_ ~> LoopLeft)

\* a wake raised by the stop request alone left the loop
C23_Witness ==
  /\ notifyMainStop_
  /\ wakeFlags.stop /\ ~wakeFlags.server /\ ~wakeFlags.updater
  /\ exitPath = "stop"
  /\ mainPc = "teardown"

\* C24: final stop.  When rustLaunchSite::Start has returned, no live process
\* is left under the handle of the Server; and every exit from the main loop
\* by a break has called the final Server::Stop before the Server is
\* destroyed.
C24_FinalStop ==
  /\ mainPc = "returned" => ~(processUptr_ = "child" /\ running)
  /\ (/\ mainPc \in {"destroy", "returned"}
      /\ exitPath \in {"stop", "update_restart_failed", "restart_failed",
                       "no_auto_restart"})
       => Has("final_stop")

\* the thread creation threw after the first Start: the destructor of the
\* Server stopped the process
C24_Witness ==
  /\ mainPc = "returned"
  /\ exitPath = "exception"
  /\ context = "startup"
  /\ Has("start")
  /\ timerPc = "unstarted"
  /\ processUptr_ = "null"

\* C25: locked writes.  Every step that stores to timerState_ or raises
\* notifyTimerThread_ is taken by the main thread while it holds
\* threadData::mutex_.
C25_LockedWrites ==
  [][ (\/ timerState_' # timerState_
       \/ (~notifyTimerThread_ /\ notifyTimerThread_'))
      => threadMutex = "main" ]_vars

\* C26: the mutex is not held across blocking work.  While the main thread is
\* about to run an update check, Server::Stop, an install loop or
\* Server::Start, it does not hold threadData::mutex_.
C26_MutexNotHeldWhileBlocking ==
  mainPc \in {"check", "stop", "update_server", "update_framework", "start"}
    => threadMutex # "main"

\* C27: Register is synchronized.  messageHandlers_ changes only in a step
\* taken while no other thread owns Rcon::mutex_, as a step that locks the
\* mutex would be.
C27_RegisterLocked ==
  [][ messageHandlers_' # messageHandlers_ => mutex_ = NoOwner ]_vars

\* C28: identifiers.  Zero is never pending, and two calls that are
\* outstanding at the same time hold different identifiers.
C28_UniqueIdentifiers ==
  /\ 0 \notin requests_
  /\ \A t1, t2 \in Callers :
       (/\ t1 # t2
        /\ pc[t1] \in {"send", "wait"} /\ identifier[t1] # 0
        /\ pc[t2] \in {"send", "wait"} /\ identifier[t2] # 0)
       => identifier[t1] # identifier[t2]

(***************************************************************************)
(* Properties of the update functions                                      *)
(***************************************************************************)
\* the latest UpdateCheck call asked the Updater this question
Asked(e) == \E k \in 1..Len(checked.calls) : checked.calls[k] = e

\* C29 as stated: the server is asked iff checkServer; when the server check
\* reports an update the framework is asked whatever its policy flag;
\* otherwise the framework is asked iff its policy flag is set.
C29_UpdateCheckResult ==
  checked.called =>
    /\ Asked("check_server") <=> checked.checkServer
    /\ checked.first => Asked("check_framework")
    /\ ~checked.first =>
         (Asked("check_framework") <=> checked.checkModFramework)

\* C29 amended: the server is asked iff checkServer, and first; the framework
\* is asked iff its policy flag is set, or updateModFrameworkOnServer is set
\* and the server check reported an update; the pair returned holds the
\* answers, false for a question not asked.
C29_UpdateCheckAmended ==
  checked.called =>
    /\ Asked("check_server") <=> checked.checkServer
    /\ Asked("check_framework") <=>
         \/ checked.checkModFramework
         \/ /\ checked.updateModFrameworkOnServer
            /\ checked.checkServer /\ checked.serverNeeds
    /\ checked.first = (Asked("check_server") /\ checked.serverNeeds)
    /\ checked.second = (Asked("check_framework") /\ checked.frameworkNeeds)
    /\ Asked("check_server") => checked.calls[1] = "check_server"
    /\ Len(checked.calls) <= 2

\* the framework's policy flag is off and the server check forced its check
C29_Witness ==
  /\ checked.called
  /\ checked.first
  /\ ~checked.checkModFramework
  /\ checked.updateModFrameworkOnServer
  /\ checked.calls = <<"check_server", "check_framework">>
  /\ checked.second

\* C30: the install loop.  The wrapper installs at least once, checks after
\* every install, installs again iff the check reports an update pending,
\* returns exactly when a check reports none, and sleeps the retry delay only
\* before a second or later install, and only if the delay is positive.
C30_InstallLoop ==
  /\ attempts # <<>> => attempts[1] = "install"
  /\ loopPc = "returned" =>
       /\ Len(attempts) >= 2
       /\ attempts[Len(attempts)] = "uptodate"
  /\ loopPc = "check" <=>
       (attempts # <<>> /\ attempts[Len(attempts)] = "install")
  /\ \A k \in 1..Len(attempts) :
       /\ attempts[k] = "install" /\ k < Len(attempts) =>
            attempts[k + 1] \in {"pending", "uptodate"}
       /\ attempts[k] = "pending" =>
            IF k = Len(attempts)
              THEN loopPc = "body"
              ELSE attempts[k + 1] =
                     (IF retryDelaySeconds > 0 THEN "sleep" ELSE "install")
       /\ attempts[k] = "uptodate" =>
            k = Len(attempts) /\ loopPc = "returned"
       /\ attempts[k] = "sleep" =>
            /\ retryDelaySeconds > 0
            /\ k > 1 /\ attempts[k - 1] = "pending"
            /\ k < Len(attempts) /\ attempts[k + 1] = "install"

\* a wrapper with a retry delay installed, found the update still pending,
\* slept, installed again and returned
C30_Witness ==
  /\ loopPc = "returned"
  /\ retryDelaySeconds > 0
  /\ attempts = <<"install", "pending", "sleep", "install", "uptodate">>

(***************************************************************************)
(* Properties of the timer thread                                          *)
(***************************************************************************)
\* C31: resume re-arms the timer.  The iteration of the timer loop that finds
\* a notification with the state RUN sets both target times from the current
\* time and raises no flag; a flag is raised only by an iteration that finds
\* no notification and the wake time reached, and the update flag only with
\* the update time reached; so until a full period has passed since the reset
\* no flag is raised.
C31_ResumeRearms ==
  [][ /\ (timerPc = "waiting" /\ notifyTimerThread_ /\ ~notifyTimerThread_'
            /\ timerState_ = "RUN")
         => /\ wakeTime' = clock + SleepDurationMinutes
            /\ updateTime' = clock + updateIntervalMinutes
            /\ UNCHANGED <<notifyMainServer_, notifyMainUpdater_>>
            /\ lastTimer' = "reset"
      /\ (~notifyMainServer_ /\ notifyMainServer_')
         => /\ ~notifyTimerThread_
            /\ clock >= wakeTime
      /\ (~notifyMainUpdater_ /\ notifyMainUpdater_')
         => /\ ~notifyTimerThread_
            /\ clock >= wakeTime
            /\ clock >= updateTime
      /\ (lastTimer = "reset" /\ lastTimer' = "reset")
         => UNCHANGED <<notifyMainServer_, notifyMainUpdater_>>
    ]_vars

\* the timer was resumed after an interval update, a full period has passed
\* since, and the tick that is due has not been taken yet
C31_Witness ==
  /\ lastTimer = "reset"
  /\ timerState_ = "RUN"
  /\ context = "interval"
  /\ updateServer
  /\ mainPc = "wait"
  /\ clock >= wakeTime
  /\ ~notifyMainServer_

\* C32: the timer thread terminates after STOP.  Once SetTimerState(STOP) has
\* made both its stores and the main thread waits in join, the timer thread
\* has left its loop or still has the notification before it, which makes it
\* leave at its next wait; a timer thread that has left raises no flag.  (A
\* state in which this fails is one where join never returns: nothing sets
\* notifyTimerThread_ again, and the loop is left only on a notification.)
C32_TimerTerminates ==
  /\ (mainPc \in {"teardown", "epilogue"} /\ pendingWrites = {})
       => \/ timerPc = "exited"
          \/ timerPc = "waiting" /\ notifyTimerThread_ /\ timerState_ = "STOP"
  /\ timerPc \in {"exited", "joined"} => lastTimer = "exit"

(***************************************************************************)
(* Properties of Server::Stop and Server::StopDelay, continued             *)
(***************************************************************************)
\* C33: shutdown-delay backoff.  In an iteration of StopDelay that goes on to
\* the broadcast, with r the whole seconds between the time read at line 499
\* and the deadline, the interval is 300 if r > 300, 60 if r > 60, 10 if
\* r > 10 and 1 otherwise; the next mark is the deadline minus the largest
\* multiple of the interval that does not exceed r; and the next mark is not
\* later than the deadline.
C33_Backoff ==
  serverPc = "say" =>
    LET r == RemainingTimeSeconds(shutdownTime, now)
        interval == IF r > 300 THEN 300
                    ELSE IF r > 60 THEN 60
                    ELSE IF r > 10 THEN 10
                    ELSE 1
        span == MaxStopDelay + RconTimeoutSeconds + 1
        multiples == { interval * k : k \in (0 - span)..span }
        largest == CHOOSE m \in multiples :
                     m <= r /\ \A n \in multiples : n <= r => n <= m
    IN /\ nextMarkTime = shutdownTime - TicksPerSecond * largest
       /\ nextMarkTime <= shutdownTime

\* a Stop call is in one of its stages
InStop ==
  serverPc \in {"delay", "loop", "getinfo", "say", "quit", "poll", "kill",
                "reset"}

\* C34: Server::Stop terminates.  While a Stop is in progress some step of it
\* can be taken; the delay stage is left no later than the deadline plus the
\* timeout of one query; the quit stage makes at most QuitPollAttempts polls
\* of one second; and the call has returned no later than the delay, the
\* timeouts of one query and of the quit command, and the polls, added up.
C34_StopTerminates ==
  /\ InStop =>
       ENABLED ( \/ StopDelayBegin
                 \/ StopDelayLoop
                 \/ \E response \in ServerInfoResponses, elapsed \in 0..MaxElapsed :
                      StopDelayGetInfo(response, elapsed)
                 \/ \E oversleep \in 0..1 : StopDelaySay(oversleep)
                 \/ \E elapsed \in {0, 1, TicksPerSecond * RconTimeoutSeconds} :
                      StopQuit(elapsed)
                 \/ StopPoll
                 \/ \E failed \in BOOLEAN : StopKill(failed)
                 \/ \E alive \in BOOLEAN : StopReset(alive) )
  /\ (serverPc \in {"loop", "getinfo", "say"} \/ (serverPc = "quit" /\ stopDelaySeconds_ > 0))
       => now <= TicksPerSecond * (stopDelaySeconds_ + RconTimeoutSeconds)
  /\ pollCount <= 10
  /\ (InStop \/ serverPc = "returned")
       => now <= TicksPerSecond * (stopDelaySeconds_ + 2 * RconTimeoutSeconds + 10)

\* a Stop whose last query and whose quit command were not answered and whose
\* process ignored the quit command: every bound of the call was used up
C34_Witness ==
  /\ serverPc = "reset"
  /\ stopDelaySeconds_ > 0
  /\ stages = <<"say", "quit", "terminate">>
  /\ pollCount = 10
  /\ now > TicksPerSecond * (stopDelaySeconds_ + RconTimeoutSeconds + 10)

(***************************************************************************)
(* Properties of the supervisor, continued                                 *)
(***************************************************************************)
\* C35: whenever the main thread waits at the top of its loop the timer state
\* is RUN; an iteration that set PAUSE and came back to the wait set RUN
\* after its last PAUSE.
C35_WaitImpliesRun ==
  mainPc = "wait" =>
    /\ timerState_ = "RUN"
    /\ Has("pause") => Last("run", 1) > Last("pause", 1)

\* the main thread waits again after a relaunch that paused the timer
C35_Witness ==
  /\ mainPc = "wait"
  /\ context = "relaunch"
  /\ Has("pause")
  /\ wake[Len(wake)] = "run"
  /\ notifyTimerThread_

\* the supervised process ended by itself and Server has not dropped its
\* handle: an unexpected stop that no Stop or Start has dealt with
Crashed == processUptr_ = "child" /\ ~running

\* C36: no relaunch without auto-restart.  When auto-restart is not configured
\* and the process has stopped unexpectedly while the main loop runs, no step
\* of the main thread calls Server::Start, and the main thread does not come
\* back to its wait: the wake ends the loop.
C36_NoRelaunch ==
  [][ (~processAutoRestart /\ Crashed /\ timerPc = "waiting")
        => /\ ~(mainPc = "start" /\ mainPc' # "start")
           /\ ~(mainPc # "wait" /\ mainPc' = "wait")
    ]_vars

\* C37: an unexpected stop is handled.  If the process has stopped by itself
\* while the main thread waits, the timer state is RUN and the timer thread
\* waits with no notification before it and a wake time the clock can reach,
\* then the main thread calls Server::Start (which replaces or drops the
\* handle of the ended process) or leaves its loop.
C37_CrashHandled ==
  ( /\ Crashed
    /\ mainPc = "wait"
    /\ timerPc = "waiting"
    /\ timerState_ = "RUN"
    /\ ~notifyTimerThread_
    /\ wakeTime <= MaxClock )
  ~> (~Crashed \/ LoopLeft)

\* the loop was left on the health check of a wake that found the process
\* ended and auto-restart not configured
C37_Witness ==
  /\ Crashed
  /\ mainPc = "teardown"
  /\ exitPath = "no_auto_restart"
  /\ wakeFlags.server
  /\ ~wakeFlags.stop

\* a Stop on its way to the forced termination that has sent no command and
\* has not waited
KillPath ==
  /\ serverPc \in {"kill", "reset"}
  /\ stages \in {<<>>, <<"terminate">>}
  /\ now = 0
  /\ pollCount = 0

\* C38: Stop without RCON.  A Stop entered with the process running and Rcon
\* not connected goes to the forced termination directly; on that path no
\* warning and no quit command is sent and no time is spent; if the process
\* still runs there, the next step of Stop is the termination; and Stop
\* returns with the handle reset.
C38_StopWithoutRcon ==
  [][ /\ (serverPc \in {"idle", "returned"} /\ IsRunning /\ ~IsConnected
            /\ serverPc' \notin {"idle", "returned"})
         => KillPath' /\ serverPc' = "kill" /\ stages' = <<>>
      /\ (KillPath /\ serverPc' # serverPc)
         => /\ \/ KillPath'
               \/ /\ serverPc' = "returned"
                  /\ processUptr_' = "null"
                  /\ stages' = stages
                  /\ now' = 0
            /\ (serverPc = "kill" /\ IsRunning)
                 => /\ lastAct' = "terminate"
                    /\ stages' = <<"terminate">>
            /\ (serverPc = "kill" /\ ~IsRunning) => stages' = <<>>
    ]_vars

\* a Stop entered without RCON returned after the forced termination alone
C38_Witness ==
  /\ serverPc = "returned"
  /\ wasRunning
  /\ readyState # "Open"
  /\ stages = <<"terminate">>
  /\ now = 0
  /\ processUptr_ = "null"

C40_Bookkeeping ==
  /\ requests_ \cap DOMAIN responses_ = {}
  /\ \A id \in requests_ \cup DOMAIN responses_ :
       \E t \in Callers : pc[t] \in {"send", "wait"} /\ identifier[t] = id
  /\ (\A t \in Callers : pc[t] \in {"idle", "done"})
       => requests_ = {} /\ responses_ = <<>>

====
